---- MODULE Spec2Model ----
(***************************************************************************)
(* Model of the operator library of EffectTexture:                         *)
(*   - processTraceNode   (services/nodes/filterNodes.ts): rasterize,       *)
(*     Marching Squares over the CASES table, stitching pass;               *)
(*   - processWaveNode and mulberry32 (services/nodes/patternNodes.ts);     *)
(*   - processPixelateNode, processLayerBlurNode (filterNodes.ts);          *)
(*   - NodePreview        (components/nodes/CustomNodes.tsx).               *)
(* Asynchronous functions are processes with a program counter; the         *)
(* external rasterizer (svgToDataUrl), the image decoder and the canvas     *)
(* are the environment, which may succeed or fail at every call.            *)
(***************************************************************************)
EXTENDS Integers, Sequences, FiniteSets, TLC

(***************************************************************************)
(* Bounds of the model                                                     *)
(***************************************************************************)
\* params.fidelity: side of the sampling grid (the code's default is 128)
Fidelity == 6
\* number of distinct keys of an arbitrary segment map (SpecStitch)
NKeys == 3
\* generators created and values drawn from each (SpecPRNG)
MaxGens == 2
MaxDraws == 3
\* resolution of a wave image: it has WaveResolution^2 pixels
WaveResolution == 2
\* renders of NodePreview with changed dependencies
MaxChanges == 3
\* length of the point arrays handed to the path library
MaxPoints == 3
\* the points parameter of a star
MaxStarPoints == 5
MaxChain == 2

(***************************************************************************)
(* Fragments (SVGResult): xml and defs.  The markup is kept structured:    *)
(* its tag, the path commands of its d attribute, and for an embedded      *)
(* bitmap what was drawn and how it is embedded.                           *)
(***************************************************************************)
Markup(tag, d, href, size, style) ==
    [tag |-> tag, d |-> d, href |-> href, size |-> size, style |-> style]

\* a markup without href attribute
NoHref == [kind |-> "none"]

NoMarkup == Markup("", <<>>, NoHref, 0, "")

SVGResult(xml, defs) == [xml |-> xml, defs |-> defs]

EmptyFragment == SVGResult(NoMarkup, <<>>)

\* the fragment an upstream node hands over: a shape that references a def
InputFragments ==
    { SVGResult(Markup("g", <<>>, NoHref, 0, ""), <<"linearGradient">>) }

NoInput == [none |-> TRUE]

Inputs == InputFragments \cup {NoInput}

(***************************************************************************)
(* mulberry32 (patternNodes.ts): 32-bit words are kept as two 16-bit       *)
(* halves <<hi, lo>>, so that no intermediate value leaves the range of     *)
(* the checker's integers                                                   *)
(***************************************************************************)
H == 256 * 256

RECURSIVE Xor16(_, _, _)
Xor16(x, y, n) ==
    IF n = 0 THEN 0
    ELSE (((x % 2) + (y % 2)) % 2) + 2 * Xor16(x \div 2, y \div 2, n - 1)

RECURSIVE Or16(_, _, _)
Or16(x, y, n) ==
    IF n = 0 THEN 0
    ELSE (IF x % 2 = 1 \/ y % 2 = 1 THEN 1 ELSE 0) + 2 * Or16(x \div 2, y \div 2, n - 1)

RECURSIVE Pow2(_)
Pow2(n) == IF n = 0 THEN 1 ELSE 2 * Pow2(n - 1)

\* a ^ b
WXor(a, b) == <<Xor16(a[1], b[1], 16), Xor16(a[2], b[2], 16)>>

\* a | c for a constant c < 2^16
WOrLow(a, c) == <<a[1], Or16(a[2], c, 16)>>

\* a >>> n for 0 < n < 16
WShr(a, n) ==
    <<a[1] \div Pow2(n), (a[2] \div Pow2(n)) + ((a[1] % Pow2(n)) * Pow2(16 - n))>>

\* a + b modulo 2^32
WAdd(a, b) ==
    LET lo == a[2] + b[2]
    IN  <<(a[1] + b[1] + (lo \div H)) % H, lo % H>>

\* the low 16 bits of x * y for 16-bit x and y
Mul16Low(x, y) == (((x % 256) * y) + ((((x \div 256) * y) % 256) * 256)) % H

\* Math.imul(a, b): the low 32 bits of the product
Imul(a, b) ==
    LET p1 == (a[2] \div 256) * b[2]
        p0 == (a[2] % 256) * b[2]
        low == ((p1 % 256) * 256) + p0
        carry == (p1 \div 256) + (low \div H)
    IN  <<(carry + Mul16Low(a[1], b[2]) + Mul16Low(a[2], b[1])) % H, low % H>>

\* the result of a bitwise operator read as a signed 32-bit integer: the high
\* half carries the sign
ToInt32(w) == <<IF w[1] >= 32768 THEN w[1] - H ELSE w[1], w[2]>>

\* w >>> 0: the signed result read as an unsigned 32-bit integer
ToUint32(w) == <<w[1] % H, w[2]>>

\* 0x6D2B79F5
Increment == <<27947, 31221>>

\* one call of the closure mulberry32 returns, from its captured a (modulo
\* 2^32; the code keeps a as a double, exact far beyond any number of draws
\* made here): the new a and the numerator of the returned value / 2^32
mulberry32(a) ==
    LET a1 == WAdd(a, Increment)
        t1 == Imul(WXor(a1, WShr(a1, 15)), WOrLow(a1, 1))
        t2 == WXor(t1, WAdd(t1, Imul(WXor(t1, WShr(t1, 7)), WOrLow(t1, 61))))
    IN  [a |-> a1, value |-> ToUint32(ToInt32(WXor(t2, WShr(t2, 14))))]

\* the word of a non-negative integer below 2^31
Word(n) == <<n \div H, n % H>>

(***************************************************************************)
(* State                                                                   *)
(***************************************************************************)
VARIABLES
    op,          \* the operator this run evaluates
    input,       \* its input fragment, or NoInput (null)
    resolution,  \* its resolution argument
    pc,          \* position of the asynchronous function
    outcome,     \* its promise: "pending", "resolved" or "rejected"
    result,      \* the value the promise resolved with
    rasterCalls, \* number of calls of svgToDataUrl made so far
    fault,       \* which call of the environment failed in this run, if any
    \* processTraceNode
    fidelity,    \* params.fidelity
    invert,      \* params.invert
    bitmap,      \* the pixels the rasterizer has drawn white
    segs,        \* the segments recorded by the marching loop, in order
    nextMap,     \* Map startKey -> endKey, in insertion order
    d,           \* the path data built by the stitching pass
    visited,     \* Set of visited keys
    idx,         \* position of the outer loop in nextMap.entries()
    startKey,    \* start of the subpath being walked
    curr,        \* the walk's current key
    steps,       \* the walk's step counter
    \* mulberry32
    gens,        \* the generators created: seed, captured a, values returned
    \* processWaveNode
    wparams,     \* waveType, generators, amp, threshold, soft, seed
    seeds,       \* phase and speed of each oscillator (numerators of rand())
    source,      \* what the rasterizer drew of the input
    srcCtx,      \* the input's bitmap sits on a canvas with a 2D context
    base,        \* baseVal of each pixel
    mix,         \* mix of each pixel
    alphaVal,    \* alphaVal of each pixel
    data,        \* the alpha bytes written to the image data
    \* processPixelateNode
    pixelSize,   \* params.pixelSize
    \* processLayerBlurNode
    bparams,     \* radius, pointA, pointB
    layers,      \* the blur layers composited over the sharp base
    drawn,       \* what was drawn on the main canvas, in order: 0 the image,
                 \* i the masked layer i
    \* NodePreview
    mounted,     \* the component is mounted
    visible,     \* its visible prop
    version,     \* version of the dependencies nodes, edges, nodeId
    changes,     \* renders with changed dependencies so far
    runs,        \* the runs of the effect, in order
    cleanup,     \* the run whose cleanup function is registered, or 0
    previewUrl,  \* the state previewUrl
    \* the path library (shapeUtils)
    call,        \* the function called and its arguments
    path,        \* the path description it returned
    \* processShapeNode and processFilterNode
    frag,        \* the fragment the last operator returned
    prevFrag,    \* the fragment that operator was given
    chain,       \* the operators applied so far, with their parameters
    minted       \* the ids generateId has returned so far, in order

traceVars == <<fidelity, invert, bitmap, segs, nextMap, d, visited, idx,
               startKey, curr, steps>>
procVars == <<op, input, resolution, pc, outcome, result, rasterCalls, fault>>
rngVars == <<gens>>
waveVars == <<wparams, seeds, source, srcCtx, base, mix, alphaVal, data>>
pixVars == <<pixelSize>>
blurVars == <<bparams, layers, drawn>>
libVars == <<call, path>>
graphVars == <<frag, prevFrag, chain, minted>>
restVars == <<libVars, graphVars>>
previewVars == <<mounted, visible, version, changes, runs, cleanup, previewUrl>>
nonTrace == <<rngVars, waveVars, pixVars, blurVars, previewVars, restVars>>

(***************************************************************************)
(* processTraceNode: binarization, the CASES table, the marching loop      *)
(***************************************************************************)
\* params.threshold ?? 0.5, in thousandths
TraceThreshold == 500

\* data[i], data[i+1], data[i+2] of a pixel: white where the bitmap is lit
Channel(bm, x, y) == IF <<x, y>> \in bm THEN 255 ELSE 0

\* getState: 1 iff the pixel's luminance is above (inverted: below) threshold;
\* lum = (r*0.299 + g*0.587 + b*0.114)/255 in thousandths, r = g = b
getState(bm, inv, f, x, y) ==
    IF x < 0 \/ y < 0 \/ x >= f \/ y >= f THEN 0
    ELSE LET c == Channel(bm, x, y)
             lum == (c * 299 + c * 587 + c * 114) \div 255
         IN  IF inv THEN (IF lum < TraceThreshold THEN 1 ELSE 0)
                    ELSE (IF lum > TraceThreshold THEN 1 ELSE 0)

\* CASES, coordinates doubled (0.5 is 1, 1 is 2): <<x1, y1, x2, y2>>
CASES(i) ==
    CASE i = 0  -> <<>>
      [] i = 1  -> << <<0, 1, 1, 2>> >>
      [] i = 2  -> << <<1, 2, 2, 1>> >>
      [] i = 3  -> << <<0, 1, 2, 1>> >>
      [] i = 4  -> << <<2, 1, 1, 0>> >>
      [] i = 5  -> << <<0, 1, 1, 2>>, <<2, 1, 1, 0>> >>
      [] i = 6  -> << <<1, 2, 1, 0>> >>
      [] i = 7  -> << <<0, 1, 1, 0>> >>
      [] i = 8  -> << <<1, 0, 0, 1>> >>
      [] i = 9  -> << <<1, 0, 1, 2>> >>
      [] i = 10 -> << <<1, 0, 0, 1>>, <<1, 2, 2, 1>> >>
      [] i = 11 -> << <<1, 0, 2, 1>> >>
      [] i = 12 -> << <<2, 1, 0, 1>> >>
      [] i = 13 -> << <<2, 1, 1, 2>> >>
      [] i = 14 -> << <<1, 2, 0, 1>> >>
      [] i = 15 -> <<>>

\* the weights of the two bottom corners exchanged
caseIdx_swapped(bm, inv, f, x, y) ==
      getState(bm, inv, f, x, y) * 8
    + getState(bm, inv, f, x + 1, y) * 4
    + getState(bm, inv, f, x + 1, y + 1)
    + getState(bm, inv, f, x, y + 1) * 2

\* caseIdx = tl*8 + tr*4 + br*2 + bl
caseIdx(bm, inv, f, x, y) ==
      getState(bm, inv, f, x, y) * 8
    + getState(bm, inv, f, x + 1, y) * 4
    + getState(bm, inv, f, x + 1, y + 1) * 2
    + getState(bm, inv, f, x, y + 1)

\* (v * scale).toFixed(2) for v = v2/2 and scale = resolution/fidelity, in
\* hundredths: the nearest hundredth, the larger one on a tie
toFixed2(v2, res, f) == (100 * v2 * res + f) \div (2 * f)

\* the two coordinates exchanged
k_transposed(x2, y2, res, f) == <<toFixed2(y2, res, f), toFixed2(x2, res, f)>>

\* k(x, y): the key of a point given in doubled grid coordinates
k(x2, y2, res, f) == <<toFixed2(x2, res, f), toFixed2(y2, res, f)>>

\* the segments one cell records: its lines with their start and end keys
CellSegs(bm, inv, res, f, x, y) ==
    LET ci == caseIdx(bm, inv, f, x, y)
        lines == IF ci = 0 \/ ci = 15 THEN <<>> ELSE CASES(ci)
    IN  [j \in 1..Len(lines) |->
            [x |-> x, y |-> y, line |-> lines[j],
             startKey |-> k(2 * x + lines[j][1], 2 * y + lines[j][2], res, f),
             endKey   |-> k(2 * x + lines[j][3], 2 * y + lines[j][4], res, f)]]

\* the loop run over a ring of cells around the grid as well, rows and
\* columns -1..f-1, the samples outside reading as off
RECURSIVE MarchFrom_padded(_, _, _, _, _)
MarchFrom_padded(bm, inv, res, f, c) ==
    IF c >= (f + 1) * (f + 1) THEN <<>>
    ELSE CellSegs(bm, inv, res, f, (c % (f + 1)) - 1, (c \div (f + 1)) - 1)
         \o MarchFrom_padded(bm, inv, res, f, c + 1)

\* the marching loop: rows y = 0..f-2, in each row x = 0..f-2
RECURSIVE MarchFrom(_, _, _, _, _)
MarchFrom(bm, inv, res, f, c) ==
    IF f < 2 \/ c >= (f - 1) * (f - 1) THEN <<>>
    ELSE CellSegs(bm, inv, res, f, (c % (f - 1)), (c \div (f - 1)))
         \o MarchFrom(bm, inv, res, f, c + 1)

\* Map.set on a map kept as its entries in insertion order
MapSet(m, key, val) ==
    IF \E i \in 1..Len(m) : m[i][1] = key
    THEN [i \in 1..Len(m) |-> IF m[i][1] = key THEN <<key, val>> ELSE m[i]]
    ELSE Append(m, <<key, val>>)

MapHas(m, key) == \E i \in 1..Len(m) : m[i][1] = key

MapGet(m, key) == m[CHOOSE i \in 1..Len(m) : m[i][1] = key][2]

\* nextMap after nextMap.set(startKey, endKey) for the first n segments
RECURSIVE SetAll(_, _)
SetAll(ss, n) ==
    IF n = 0 THEN <<>>
    ELSE MapSet(SetAll(ss, n - 1), ss[n].startKey, ss[n].endKey)

(***************************************************************************)
(* Inputs of processTraceNode                                              *)
(***************************************************************************)
\* the resolution the preview renders at (CustomNodes.tsx)
PreviewResolution == 512
Resolutions == {PreviewResolution}

Pixels(f) == (0..(f - 1)) \X (0..(f - 1))

\* a filled disk: centre (cx2/2, cy2/2), squared radius r2sq/4
Disk(cx2, cy2, r2sq, f) ==
    {p \in Pixels(f) :
        (2 * p[1] - cx2) * (2 * p[1] - cx2) + (2 * p[2] - cy2) * (2 * p[2] - cy2) <= r2sq}

Disks(f) ==
    {Disk(cx2, cy2, r2sq, f) :
        cx2 \in 0..(2 * f - 2), cy2 \in 0..(2 * f - 2), r2sq \in 0..(f * f)}

\* every pattern of the 3x3 windows at (0,0) (touching the border) and (1,1)
Windows == (SUBSET ((0..2) \X (0..2))) \cup (SUBSET ((1..3) \X (1..3)))

DiskBitmaps == Disks(Fidelity)

\* what the rasterizer may draw: a disk or a window pattern
Bitmaps == DiskBitmaps \cup {w \in Windows : w \subseteq Pixels(Fidelity)}

(***************************************************************************)
(* processTraceNode: the asynchronous function                             *)
(***************************************************************************)
\* path commands: "M x y", "L x y" (the key's two numbers) and "Z"
Cmd(c, key) == [c |-> c, key |-> key]
NoKey == <<-1, -1>>
CmdZ == Cmd("Z", NoKey)

\* `<path d="${pathData}" fill="white" stroke="none" />`, defs []
TracePath(pathData) == SVGResult(Markup("path", pathData, NoHref, 0, ""), <<>>)

\* return v (the async function's promise resolves with v)
Return(v) ==
    /\ pc' = "done"
    /\ outcome' = "resolved"
    /\ result' = v

\* lines 360-369: null input returns the empty fragment; otherwise the input
\* is handed to svgToDataUrl
TraceStart ==
    /\ op = "trace" /\ pc = "start"
    /\ IF input = NoInput
       THEN Return(EmptyFragment) /\ UNCHANGED rasterCalls
       ELSE /\ pc' = "rasterize"
            /\ rasterCalls' = rasterCalls + 1
            /\ UNCHANGED <<outcome, result>>
    /\ UNCHANGED <<nonTrace, op, input, resolution, fault, traceVars>>

\* lines 370-373: svgToDataUrl rejected, the catch block returns
TraceRasterFailed ==
    /\ op = "trace" /\ pc = "rasterize"
    /\ Return(input)
    /\ fault' = "reject"
    /\ UNCHANGED <<nonTrace, op, input, resolution, rasterCalls, traceVars>>

\* lines 376-377, 480-481: svgToDataUrl resolved with some bitmap of the
\* input, the image starts loading
TraceRasterOk ==
    /\ op = "trace" /\ pc = "rasterize"
    /\ pc' = "load"
    /\ bitmap' \in Bitmaps
    /\ UNCHANGED <<nonTrace, op, input, resolution, outcome, result, rasterCalls, fault,
                   fidelity, invert, segs, nextMap, d, visited, idx,
                   startKey, curr, steps>>

\* line 479: img.onerror resolves the path data with ''
TraceImgError ==
    /\ op = "trace" /\ pc = "load"
    /\ pc' = "pathData"
    /\ d' = <<>>
    /\ fault' = "imgerror"
    /\ UNCHANGED <<nonTrace, op, input, resolution, outcome, result, rasterCalls,
                   fidelity, invert, bitmap, segs, nextMap, visited, idx,
                   startKey, curr, steps>>

\* lines 378-440: img.onload; without a 2D context it resolves with '',
\* otherwise it marches the cells and sets up the stitching pass
TraceImgLoad ==
    /\ op = "trace" /\ pc = "load"
    /\ \E ctxOk \in BOOLEAN :
        IF ~ctxOk
        THEN /\ pc' = "pathData"
             /\ d' = <<>>
             /\ fault' = "noctx"
             /\ UNCHANGED <<segs, nextMap, visited, idx>>
        ELSE LET ss == MarchFrom(bitmap, invert, resolution, fidelity, 0)
             IN  /\ segs' = ss
                 /\ nextMap' = SetAll(ss, Len(ss))
                 /\ d' = <<>>
                 /\ visited' = {}
                 /\ idx' = 1
                 /\ pc' = "stitch"
                 /\ UNCHANGED fault
    /\ UNCHANGED <<nonTrace, op, input, resolution, outcome, result, rasterCalls,
                   fidelity, invert, bitmap, startKey, curr, steps>>

\* a bound of one row of samples
maxSteps_short == fidelity

\* const maxSteps = fidelity * fidelity * 2
maxSteps == fidelity * fidelity * 2

\* lines 442-451: one iteration of the loop over nextMap.entries() up to the
\* while loop
StitchOuter ==
    /\ op = "trace" /\ pc = "stitch" /\ idx <= Len(nextMap)
    /\ IF nextMap[idx][1] \in visited
       THEN /\ idx' = idx + 1
            /\ UNCHANGED <<pc, d, visited, startKey, curr, steps>>
       ELSE /\ startKey' = nextMap[idx][1]
            /\ d' = Append(d, Cmd("M", nextMap[idx][1]))
            /\ visited' = visited \cup {nextMap[idx][1]}
            /\ curr' = nextMap[idx][2]
            /\ steps' = 0
            /\ pc' = "walk"
            /\ UNCHANGED idx
    /\ UNCHANGED <<nonTrace, op, input, resolution, outcome, result, rasterCalls, fault,
                   fidelity, invert, bitmap, segs, nextMap>>

\* the walk leaves the while loop: the outer loop goes on with the next entry
EndWalk ==
    /\ pc' = "stitch"
    /\ idx' = idx + 1
    /\ UNCHANGED <<curr, steps>>

\* the close test left out: a walk never recognises its own start
AtStart_never(c, s) == FALSE

\* line 457: curr === startKey
AtStart(c, s) == c = s

\* the visited test left out: a walk runs on through keys already emitted
Seen_never(c, vis) == FALSE

\* line 462: visited.has(curr)
Seen(c, vis) == c \in vis

\* lines 453-474: the test and one iteration of the while loop
WalkStep ==
    /\ op = "trace" /\ pc = "walk"
    /\ IF ~(steps < maxSteps)
       THEN EndWalk /\ UNCHANGED <<d, visited>>
       ELSE IF AtStart(curr, startKey)
       THEN /\ d' = d \o <<Cmd("L", curr), CmdZ>>
            /\ EndWalk /\ UNCHANGED visited
       ELSE IF Seen(curr, visited)
       THEN /\ d' = Append(d, Cmd("L", curr))
            /\ EndWalk /\ UNCHANGED visited
       ELSE /\ d' = Append(d, Cmd("L", curr))
            /\ visited' = visited \cup {curr}
            /\ IF MapHas(nextMap, curr)
               THEN /\ curr' = MapGet(nextMap, curr)
                    /\ steps' = steps + 1
                    /\ UNCHANGED <<pc, idx>>
               ELSE EndWalk
    /\ UNCHANGED <<nonTrace, op, input, resolution, outcome, result, rasterCalls, fault,
                   fidelity, invert, bitmap, segs, nextMap, startKey>>

\* line 477: resolve(d)
StitchDone ==
    /\ op = "trace" /\ pc = "stitch" /\ idx > Len(nextMap)
    /\ pc' = "pathData"
    /\ UNCHANGED <<nonTrace, op, input, resolution, outcome, result, rasterCalls, fault,
                   traceVars>>

\* lines 484-490: empty path data gives the empty fragment
TraceReturn ==
    /\ op = "trace" /\ pc = "pathData"
    /\ Return(IF d = <<>> THEN EmptyFragment ELSE TracePath(d))
    /\ UNCHANGED <<nonTrace, op, input, resolution, rasterCalls, fault, traceVars>>

NextStitch == StitchOuter \/ WalkStep \/ StitchDone \/ TraceReturn

NextTrace ==
    \/ TraceStart \/ TraceRasterFailed \/ TraceRasterOk
    \/ TraceImgError \/ TraceImgLoad
    \/ NextStitch

vars == <<procVars, traceVars, rngVars, waveVars, pixVars, blurVars, previewVars, restVars>>

\* the parts of the state a run of another component leaves untouched
NoParams == [none |-> TRUE]
NoUrl == [none |-> TRUE]
NoPixels == <<>>
\* a parameter the caller left out (undefined), told from every fraction
\* <<numerator, denominator>> by its denominator
Undefined == <<0, 0>>

IdleRng == gens = <<>>

NoCall == [fn |-> "none"]
NoPath == [returned |-> FALSE, d |-> <<>>]
NoFragment == [none |-> TRUE]

IdleLib == call = NoCall /\ path = NoPath

IdleGraph == frag = NoFragment /\ prevFrag = NoFragment /\ chain = <<>> /\ minted = <<>>

IdleRest == IdleLib /\ IdleGraph

IdleWave ==
    /\ wparams = NoParams
    /\ seeds = <<>>
    /\ source = ""
    /\ srcCtx = FALSE
    /\ base = NoPixels
    /\ mix = NoPixels
    /\ alphaVal = NoPixels
    /\ data = NoPixels

IdlePixelate == pixelSize = Undefined

IdleBlur == bparams = NoParams /\ layers = <<>> /\ drawn = <<>>

IdlePreview ==
    /\ mounted = FALSE
    /\ visible = FALSE
    /\ version = 0
    /\ changes = 0
    /\ runs = <<>>
    /\ cleanup = 0
    /\ previewUrl = NoUrl

IdleTrace ==
    /\ fidelity = Fidelity
    /\ invert = FALSE
    /\ bitmap = {}
    /\ segs = <<>>
    /\ nextMap = <<>>
    /\ d = <<>>
    /\ visited = {}
    /\ idx = 1
    /\ startKey = NoKey
    /\ curr = NoKey
    /\ steps = 0

IdleProc ==
    /\ op = "none"
    /\ input = NoInput
    /\ resolution = 0
    /\ pc = "done"
    /\ outcome = "pending"
    /\ result = EmptyFragment
    /\ rasterCalls = 0
    /\ fault = "none"

InitTraceVars ==
    /\ segs = <<>>
    /\ nextMap = <<>>
    /\ d = <<>>
    /\ visited = {}
    /\ idx = 1
    /\ startKey = NoKey
    /\ curr = NoKey
    /\ steps = 0

InitTrace ==
    /\ op = "trace"
    /\ input \in Inputs
    /\ resolution \in Resolutions
    /\ pc = "start"
    /\ outcome = "pending"
    /\ result = EmptyFragment
    /\ rasterCalls = 0
    /\ fault = "none"
    /\ fidelity = Fidelity
    /\ invert \in BOOLEAN
    /\ bitmap = {}
    /\ InitTraceVars
    /\ IdleRng /\ IdleWave /\ IdlePixelate /\ IdleBlur /\ IdlePreview /\ IdleRest

SpecTrace == InitTrace /\ [][NextTrace]_vars

(***************************************************************************)
(* Exact fractions <<numerator, denominator>> in lowest terms, for the      *)
(* floating-point values of processWaveNode                                 *)
(***************************************************************************)
Abs(n) == IF n < 0 THEN -n ELSE n

RECURSIVE GCD(_, _)
GCD(a, b) == IF b = 0 THEN a ELSE GCD(b, a % b)

Rat(n, dn) ==
    LET g == GCD(Abs(n), Abs(dn))
        sgn == IF dn < 0 THEN -1 ELSE 1
    IN  <<(sgn * n) \div g, (sgn * dn) \div g>>

RAdd(a, b) == Rat(a[1] * b[2] + b[1] * a[2], a[2] * b[2])
RSub(a, b) == Rat(a[1] * b[2] - b[1] * a[2], a[2] * b[2])
RMul(a, b) == Rat(a[1] * b[1], a[2] * b[2])
RDiv(a, b) == Rat(a[1] * b[2], a[2] * b[1])
RLt(a, b) == a[1] * b[2] < b[1] * a[2]
RLe(a, b) == a[1] * b[2] <= b[1] * a[2]
RMax(a, b) == IF RLt(a, b) THEN b ELSE a
RMin(a, b) == IF RLt(b, a) THEN b ELSE a
RInt(n) == <<n, 1>>

RECURSIVE RSum(_, _)
RSum(f, n) == IF n = 0 THEN RInt(0) ELSE RAdd(RSum(f, n - 1), f[n])

\* storing v in a Uint8ClampedArray: clamped to 0..255 and rounded to the
\* nearest integer, a tie to the even one
ToUint8Clamped(v) ==
    LET fl == v[1] \div v[2]
        twice == 2 * (v[1] - fl * v[2])
    IN  IF RLe(v, RInt(0)) THEN 0
        ELSE IF RLe(RInt(255), v) THEN 255
        ELSE IF twice < v[2] THEN fl
        ELSE IF twice > v[2] THEN fl + 1
        ELSE IF fl % 2 = 0 THEN fl ELSE fl + 1

(***************************************************************************)
(* processWaveNode (patternNodes.ts)                                        *)
(***************************************************************************)
nonWave == <<traceVars, rngVars, pixVars, blurVars, previewVars, restVars>>

\* the first n values of rand = mulberry32(seed), as numerators over 2^32
RECURSIVE RandValues(_, _)
RandValues(a, n) ==
    IF n = 0 THEN <<>>
    ELSE LET r == mulberry32(a) IN <<r.value>> \o RandValues(r.a, n - 1)

\* lines 28-35: oscillator i takes two values of rand in turn; its phase is
\* rand()*2*PI and its speed 0.5 + rand()*1.5, kept as the values of rand()
Oscillators(seed, n) ==
    LET rv == RandValues(seed, 2 * n)
    IN  [i \in 1..n |-> [phase |-> rv[2 * i - 1], speed |-> rv[2 * i]]]

\* the test taken as true whatever the input
HasInput_always(i) == TRUE

\* line 39: if (input)
HasInput(i) == i # NoInput

\* lines 19-41: the parameters' defaults, the oscillators, and with an input
\* the call of svgToDataUrl
WaveStart ==
    /\ op = "wave" /\ pc = "start"
    /\ seeds' = Oscillators(wparams.seed, wparams.generators)
    /\ IF HasInput(input)
       THEN /\ pc' = "rasterize"
            /\ rasterCalls' = rasterCalls + 1
       ELSE /\ pc' = "render"
            /\ UNCHANGED rasterCalls
    /\ UNCHANGED <<nonWave, op, input, resolution, outcome, result, fault,
                   wparams, source, srcCtx, base, mix, alphaVal, data>>

\* svgToDataUrl rejected and nothing catches it: the promise rejects
WaveRasterFailed_uncaught ==
    /\ op = "wave" /\ pc = "rasterize"
    /\ pc' = "done"
    /\ outcome' = "rejected"
    /\ fault' = "reject"
    /\ UNCHANGED <<nonWave, op, input, resolution, result, rasterCalls, waveVars>>

\* lines 53-55: svgToDataUrl rejected; the catch block logs and goes on
\* without a source context
WaveRasterFailed ==
    /\ op = "wave" /\ pc = "rasterize"
    /\ pc' = "render"
    /\ fault' = "reject"
    /\ UNCHANGED <<nonWave, op, input, resolution, outcome, result, rasterCalls,
                   waveVars>>

\* what the rasterizer may have drawn of the input, the same in every pixel
\* but for "split" (white in column 0, black elsewhere): <<r = g = b, a>>
WaveSources == {"white", "clear", "half", "split"}

SourcePixel(src, x, y) ==
    CASE src = "white" -> <<255, 255>>
      [] src = "clear" -> <<255, 0>>
      [] src = "half"  -> <<255, 128>>
      [] src = "split" -> IF x = 0 THEN <<255, 255>> ELSE <<0, 255>>

\* lines 41-48: svgToDataUrl resolved, the image starts loading
WaveRasterOk ==
    /\ op = "wave" /\ pc = "rasterize"
    /\ pc' = "load"
    /\ UNCHANGED <<nonWave, op, input, resolution, outcome, result, rasterCalls,
                   fault, waveVars>>

\* line 45: img.onerror rejects the awaited promise; the catch block goes on
\* without a source context
WaveImgError ==
    /\ op = "wave" /\ pc = "load"
    /\ pc' = "render"
    /\ fault' = "imgerror"
    /\ UNCHANGED <<nonWave, op, input, resolution, outcome, result, rasterCalls,
                   waveVars>>

\* lines 49-52: the image loaded; srcCtx is the canvas' 2D context, with
\* the image drawn on it, or null
WaveImgLoad ==
    /\ op = "wave" /\ pc = "load"
    /\ pc' = "render"
    /\ \E ctxOk \in BOOLEAN :
          /\ srcCtx' = ctxOk
          /\ IF ctxOk
             THEN source' \in WaveSources /\ UNCHANGED fault
             ELSE fault' = "noctx" /\ UNCHANGED source
    /\ UNCHANGED <<nonWave, op, input, resolution, outcome, result, rasterCalls,
                   wparams, seeds, base, mix, alphaVal, data>>

WavePixels(res) == (0..(res - 1)) \X (0..(res - 1))

\* values Math.sin takes
SinValues == {RInt(-1), RInt(0), Rat(1, 2)}

\* Math.sign
Sign(v) == IF v[1] > 0 THEN RInt(1) ELSE IF v[1] < 0 THEN RInt(-1) ELSE RInt(0)

\* the sum of the oscillators left undivided
ColNoise_undamped(waveType, sines, n) ==
    LET val == [i \in 1..n |-> IF waveType = "square" THEN Sign(sines[i]) ELSE sines[i]]
    IN  RSum(val, n)

\* lines 76-88: colNoise[x] from the sines of the oscillators at column x
ColNoise(waveType, sines, n) ==
    LET val == [i \in 1..n |-> IF waveType = "square" THEN Sign(sines[i]) ELSE sines[i]]
        totalVal == RSum(val, n)
    IN  RDiv(totalVal, RMax(RInt(1), RMul(RInt(n), Rat(6, 10))))

\* line 94: const defaultGrad = 1 - (y / resolution)
defaultGrad(y, res) == RSub(RInt(1), Rat(y, res))

\* lines 99-107: the input's luminance times its alpha, or the gradient
BaseVal(hasSrc, src, x, y, res) ==
    IF hasSrc
    THEN LET px == SourcePixel(src, x, y)
             lum == RDiv(RAdd(RAdd(RMul(RInt(px[1]), Rat(299, 1000)),
                                   RMul(RInt(px[1]), Rat(587, 1000))),
                              RMul(RInt(px[1]), Rat(114, 1000))), RInt(255))
         IN  RMul(lum, Rat(px[2], 255))
    ELSE defaultGrad(y, res)

\* the ramp without its clamp
SoftThreshold_unclamped(m, threshold, soft) ==
    IF RLe(soft, Rat(1, 1000))
    THEN (IF RLt(threshold, m) THEN RInt(255) ELSE RInt(0))
    ELSE RMul(RDiv(RSub(m, RSub(threshold, soft)),
                   RSub(RAdd(threshold, soft), RSub(threshold, soft))), RInt(255))

\* lines 113-123: alphaVal from mix
SoftThreshold(m, threshold, soft) ==
    IF RLe(soft, Rat(1, 1000))
    THEN (IF RLt(threshold, m) THEN RInt(255) ELSE RInt(0))
    ELSE LET lower == RSub(threshold, soft)
             upper == RAdd(threshold, soft)
             t == RDiv(RSub(m, lower), RSub(upper, lower))
         IN  RMul(RMax(RInt(0), RMin(RInt(1), t)), RInt(255))

\* `<image href="${dataUrl}" ... width height = resolution />`, defs []
ImageFragment(href, res, style) == SVGResult(Markup("image", <<>>, href, res, style), <<>>)

\* lines 58-142: the output canvas (without a 2D context: the empty
\* fragment), the column noise, every pixel, the image
WaveRender ==
    /\ op = "wave" /\ pc = "render"
    /\ \E ctxOk \in BOOLEAN :
        IF ~ctxOk
        THEN /\ Return(EmptyFragment)
             /\ fault' = "nocanvas"
             /\ UNCHANGED <<base, mix, alphaVal, data>>
        ELSE \E sines \in [0..(resolution - 1) -> [1..wparams.generators -> SinValues]] :
             LET colNoise == [x \in 0..(resolution - 1) |->
                                ColNoise(wparams.waveType, sines[x], Len(seeds))]
                 b == [p \in WavePixels(resolution) |->
                         BaseVal(srcCtx, source, p[1], p[2], resolution)]
                 m == [p \in WavePixels(resolution) |->
                         RAdd(b[p], RMul(colNoise[p[1]], wparams.amp))]
                 al == [p \in WavePixels(resolution) |->
                         SoftThreshold(m[p], wparams.threshold, wparams.soft)]
                 bytes == [p \in WavePixels(resolution) |-> ToUint8Clamped(al[p])]
             IN  /\ base' = b
                 /\ mix' = m
                 /\ alphaVal' = al
                 /\ data' = bytes
                 /\ Return(ImageFragment([kind |-> "canvas", pixels |-> bytes],
                                         resolution, ""))
                 /\ UNCHANGED fault
    /\ UNCHANGED <<nonWave, op, input, resolution, rasterCalls,
                   wparams, seeds, source, srcCtx>>

NextWave ==
    \/ WaveStart \/ WaveRasterFailed \/ WaveRasterOk
    \/ WaveImgError \/ WaveImgLoad \/ WaveRender

\* line 25: params.seed ?? 12345
DefaultSeed == 12345

\* the parameters: params.waveType, generators, amplitude/100,
\* threshold/100, softness/100, seed
WaveParams ==
    [waveType : {"sine", "square"},
     generators : 0..2,
     amp : {Rat(60, 100)},
     threshold : {Rat(50, 100)},
     soft : {Rat(1, 1000), Rat(2, 1000), Rat(5, 100)},
     seed : {Word(DefaultSeed)}]

InitWave ==
    /\ op = "wave"
    /\ input \in Inputs
    /\ resolution = WaveResolution
    /\ pc = "start"
    /\ outcome = "pending"
    /\ result = EmptyFragment
    /\ rasterCalls = 0
    /\ fault = "none"
    /\ wparams \in WaveParams
    /\ seeds = <<>>
    /\ source = ""
    /\ srcCtx = FALSE
    /\ base = NoPixels
    /\ mix = NoPixels
    /\ alphaVal = NoPixels
    /\ data = NoPixels
    /\ IdleTrace /\ IdleRng /\ IdlePixelate /\ IdleBlur /\ IdlePreview /\ IdleRest

SpecWave == InitWave /\ [][NextWave]_vars

(***************************************************************************)
(* processPixelateNode (filterNodes.ts)                                     *)
(***************************************************************************)
nonPixelate == <<traceVars, rngVars, waveVars, blurVars, previewVars, restVars>>

Maximum(a, b) == IF a >= b THEN a ELSE b

\* v ?? dflt
Nullish(v, dflt) == IF v = Undefined THEN dflt ELSE v

\* Math.floor of a fraction
Floor(v) == v[1] \div v[2]

\* line 12: Math.max(1, params.pixelSize ?? 1)
EffectivePixelSize(ps) == RMax(RInt(1), Nullish(ps, RInt(1)))

\* the size left at 0 when the pixels are larger than the image
RenderSize_unclamped(res, ps) == Floor(RDiv(RInt(res), EffectivePixelSize(ps)))

\* lines 17-18: Math.max(1, Math.floor(resolution / pixelSize))
RenderSize(res, ps) == Maximum(1, Floor(RDiv(RInt(res), EffectivePixelSize(ps))))

\* lines 10-21: null input returns the empty fragment; otherwise the input is
\* handed to svgToDataUrl at the reduced size
PixelateStart ==
    /\ op = "pixelate" /\ pc = "start"
    /\ IF input = NoInput
       THEN Return(EmptyFragment) /\ UNCHANGED rasterCalls
       ELSE /\ pc' = "rasterize"
            /\ rasterCalls' = rasterCalls + 1
            /\ UNCHANGED <<outcome, result>>
    /\ UNCHANGED <<nonPixelate, op, input, resolution, fault, pixelSize>>

\* lines 28-31: svgToDataUrl rejected, the catch block returns the input
PixelateRasterFailed ==
    /\ op = "pixelate" /\ pc = "rasterize"
    /\ Return(input)
    /\ fault' = "reject"
    /\ UNCHANGED <<nonPixelate, op, input, resolution, rasterCalls, pixelSize>>

\* lines 21-27: the bitmap of renderW x renderH pixels, embedded at the full
\* resolution with image-rendering: pixelated
PixelateRasterOk ==
    /\ op = "pixelate" /\ pc = "rasterize"
    /\ Return(ImageFragment([kind |-> "raster",
                             w |-> RenderSize(resolution, pixelSize),
                             h |-> RenderSize(resolution, pixelSize)],
                            resolution, "image-rendering: pixelated"))
    /\ UNCHANGED <<nonPixelate, op, input, resolution, rasterCalls, fault, pixelSize>>

NextPixelate == PixelateStart \/ PixelateRasterFailed \/ PixelateRasterOk

\* params.pixelSize: left out, below 1, 1, fractional, larger than the image
PixelSizes ==
    {Undefined, RInt(-2), RInt(0), Rat(1, 2), RInt(1), Rat(3, 2), RInt(2),
     RInt(3), RInt(512), RInt(600)}

InitPixelate ==
    /\ op = "pixelate"
    /\ input \in Inputs
    /\ resolution \in Resolutions
    /\ pc = "start"
    /\ outcome = "pending"
    /\ result = EmptyFragment
    /\ rasterCalls = 0
    /\ fault = "none"
    /\ pixelSize \in PixelSizes
    /\ IdleTrace /\ IdleRng /\ IdleWave /\ IdleBlur /\ IdlePreview /\ IdleRest

(***************************************************************************)
(* processLayerBlurNode (filterNodes.ts)                                    *)
(***************************************************************************)
nonBlur == <<traceVars, rngVars, waveVars, pixVars, previewVars, restVars>>

\* line 85
STEPS == 16

\* line 41: the default of params.radius
DefaultRadius == 20

\* line 41: params.radius ?? 20
BlurRadius(bp) == IF bp.radius = Undefined THEN RInt(DefaultRadius) ELSE bp.radius

\* the radius never looked at
TooCloseOrSharp_distOnly(bp, res) ==
    LET dx == RSub(RMul(bp.pointB[1], RInt(res)), RMul(bp.pointA[1], RInt(res)))
        dy == RSub(RMul(bp.pointB[2], RInt(res)), RMul(bp.pointA[2], RInt(res)))
    IN  RLt(RAdd(RMul(dx, dx), RMul(dy, dy)), RInt(1))

\* lines 68-77: dist < 1 || radius < 0.5, dist being the distance of the two
\* points in pixels
TooCloseOrSharp(bp, res) ==
    LET dx == RSub(RMul(bp.pointB[1], RInt(res)), RMul(bp.pointA[1], RInt(res)))
        dy == RSub(RMul(bp.pointB[2], RInt(res)), RMul(bp.pointA[2], RInt(res)))
    IN  \/ RLt(RAdd(RMul(dx, dx), RMul(dy, dy)), RInt(1))
        \/ RLt(BlurRadius(bp), Rat(1, 2))

\* every layer blurred as the one before it should be
BlurLayers_lagging(bp) ==
    [i \in 1..STEPS |-> [tStart |-> Rat(i - 1, STEPS),
                         tEnd |-> Rat(i, STEPS),
                         currentBlur |-> RMul(Rat(i - 1, STEPS), BlurRadius(bp))]]

\* lines 94-128: layer i fades in between tStart and tEnd along the line from
\* pointA to pointB, blurred by i / STEPS of the radius
BlurLayers(bp) ==
    [i \in 1..STEPS |-> [tStart |-> Rat(i - 1, STEPS),
                         tEnd |-> Rat(i, STEPS),
                         currentBlur |-> RMul(Rat(i, STEPS), BlurRadius(bp))]]

\* lines 39-48
BlurStart ==
    /\ op = "blur" /\ pc = "start"
    /\ IF input = NoInput
       THEN Return(EmptyFragment) /\ UNCHANGED rasterCalls
       ELSE /\ pc' = "rasterize"
            /\ rasterCalls' = rasterCalls + 1
            /\ UNCHANGED <<outcome, result>>
    /\ UNCHANGED <<nonBlur, op, input, resolution, fault, blurVars>>

\* lines 49-52: svgToDataUrl rejected, the catch block returns the input
BlurRasterFailed ==
    /\ op = "blur" /\ pc = "rasterize"
    /\ Return(input)
    /\ fault' = "reject"
    /\ UNCHANGED <<nonBlur, op, input, resolution, rasterCalls, blurVars>>

\* lines 54-56, 144: svgToDataUrl resolved, the image starts loading
BlurRasterOk ==
    /\ op = "blur" /\ pc = "rasterize"
    /\ pc' = "load"
    /\ UNCHANGED <<nonBlur, op, input, resolution, outcome, result, rasterCalls,
                   fault, blurVars>>

\* lines 139-142: img.onerror resolves with the input
BlurImgError ==
    /\ op = "blur" /\ pc = "load"
    /\ Return(input)
    /\ fault' = "imgerror"
    /\ UNCHANGED <<nonBlur, op, input, resolution, rasterCalls, blurVars>>

\* lines 57-137: img.onload; without a 2D context it resolves with the input;
\* otherwise the sharp base is drawn and, unless the points are too close or
\* the radius too small or the mask canvas has no 2D context, the STEPS
\* layers over it
BlurImgLoad ==
    /\ op = "blur" /\ pc = "load"
    /\ \E ctxOk, maskOk \in BOOLEAN :
        IF ~ctxOk
        THEN /\ Return(input)
             /\ fault' = "noctx"
             /\ UNCHANGED <<layers, drawn>>
        ELSE LET ls == IF TooCloseOrSharp(bparams, resolution) \/ ~maskOk
                       THEN <<>> ELSE BlurLayers(bparams)
             IN  /\ layers' = ls
                 /\ drawn' = <<0>> \o [i \in 1..Len(ls) |-> i]
                 /\ fault' = IF ~TooCloseOrSharp(bparams, resolution) /\ ~maskOk
                             THEN "nomask" ELSE fault
                 /\ Return(ImageFragment([kind |-> "layers", layers |-> ls],
                                         resolution, ""))
    /\ UNCHANGED <<nonBlur, op, input, resolution, rasterCalls, bparams>>

NextBlur ==
    \/ BlurStart \/ BlurRasterFailed \/ BlurRasterOk
    \/ BlurImgError \/ BlurImgLoad

\* params.radius, params.pointA, params.pointB (the defaults: 20, (0.5, 0),
\* (0.5, 1))
BlurParams ==
    [radius : {Undefined, RInt(0), Rat(4, 10), Rat(1, 2), RInt(3)},
     pointA : {<<Rat(1, 2), RInt(0)>>},
     pointB : {<<Rat(1, 2), RInt(1)>>, <<Rat(1, 2), RInt(0)>>,
               <<Rat(1, 2), Rat(1, 1000)>>, <<RInt(1), Rat(1, 4)>>}]

InitBlur ==
    /\ op = "blur"
    /\ input \in Inputs
    /\ resolution \in Resolutions
    /\ pc = "start"
    /\ outcome = "pending"
    /\ result = EmptyFragment
    /\ rasterCalls = 0
    /\ fault = "none"
    /\ bparams \in BlurParams
    /\ layers = <<>>
    /\ drawn = <<>>
    /\ IdleTrace /\ IdleRng /\ IdleWave /\ IdlePixelate /\ IdlePreview /\ IdleRest

(***************************************************************************)
(* The four rasterizing operators                                           *)
(***************************************************************************)
Init == InitTrace \/ InitWave \/ InitPixelate \/ InitBlur

Next == NextTrace \/ NextWave \/ NextPixelate \/ NextBlur

Spec == Init /\ [][Next]_vars

(***************************************************************************)
(* NodePreview (CustomNodes.tsx): the effect and its generation passes      *)
(***************************************************************************)
nonPreview == <<procVars, traceVars, rngVars, waveVars, pixVars, blurVars, restVars>>

\* a run of the effect that got past the visibility test: the dependencies
\* its closure captured, its flag `active`, its timeout and its pass
\*   timer: "armed", "fired" or "cleared"
\*   gen:   "none" (generate not called), "pending" (awaiting
\*          generateTexturePNG), "applied" (resolved, setPreviewUrl called),
\*          "discarded" (resolved, not applied), "rejected"
\*   waited: the milliseconds its timeout has been pending
Run(ver) ==
    [version |-> ver, active |-> TRUE, timer |-> "armed", gen |-> "none", waited |-> 0]

\* line 81: setTimeout(generate, 300)
Delay == 300

\* the milliseconds that pass between two steps
Elapses == {Delay \div 2}

\* what generateTexturePNG(nodes, edges, 512, nodeId) resolves with
Url(ver) == [nodes |-> ver]

\* the cleanup without its clearTimeout
Cleanup_noClear(rs, c) ==
    IF c = 0 THEN rs
    ELSE [rs EXCEPT ![c].active = FALSE]

\* line 82: () => { active = false; clearTimeout(timeout); }
Cleanup(rs, c) ==
    IF c = 0 THEN rs
    ELSE [rs EXCEPT ![c].active = FALSE,
                    ![c].timer = IF @ = "armed" THEN "cleared" ELSE @]

\* lines 62-83: the body of the effect, run with the dependencies vis, ver
\* after the cleanup of the previous run: the runs, the registered cleanup
\* and previewUrl it leaves
Effect(rs, url, vis, ver) ==
    IF ~vis
    THEN [runs |-> rs, cleanup |-> 0, previewUrl |-> NoUrl]
    ELSE [runs |-> Append(rs, Run(ver)), cleanup |-> Len(rs) + 1, previewUrl |-> url]

\* a render with changed dependencies [nodes, edges, nodeId, visible]: the
\* previous run's cleanup, then the effect anew
Render ==
    /\ mounted
    /\ changes < MaxChanges
    /\ \E vis \in BOOLEAN, changed \in BOOLEAN :
          /\ vis # visible \/ changed
          /\ LET ver == IF changed THEN version + 1 ELSE version
                 e == Effect(Cleanup(runs, cleanup), previewUrl, vis, ver)
             IN  /\ visible' = vis
                 /\ version' = ver
                 /\ runs' = e.runs
                 /\ cleanup' = e.cleanup
                 /\ previewUrl' = e.previewUrl
    /\ changes' = changes + 1
    /\ UNCHANGED <<nonPreview, mounted>>

\* the component unmounts: the registered cleanup runs
Unmount ==
    /\ mounted
    /\ mounted' = FALSE
    /\ runs' = Cleanup(runs, cleanup)
    /\ cleanup' = 0
    /\ UNCHANGED <<nonPreview, visible, version, changes, previewUrl>>

\* time passes for the pending timeouts
Tick ==
    /\ \E r \in 1..Len(runs) : runs[r].timer = "armed" /\ runs[r].waited < Delay
    /\ \E e \in Elapses :
          runs' = [r \in 1..Len(runs) |->
                     IF runs[r].timer = "armed"
                     THEN [runs[r] EXCEPT !.waited = @ + e] ELSE runs[r]]
    /\ UNCHANGED <<nonPreview, mounted, visible, version, changes, cleanup, previewUrl>>

\* line 81: the timeout expires and calls generate, which awaits
\* generateTexturePNG (line 73)
TimerFire(r) ==
    /\ r \in 1..Len(runs)
    /\ runs[r].timer = "armed"
    /\ runs[r].waited >= Delay
    /\ runs' = [runs EXCEPT ![r].timer = "fired", ![r].gen = "pending"]
    /\ UNCHANGED <<nonPreview, mounted, visible, version, changes, cleanup, previewUrl>>

\* the flag ignored
IsActive_always(run) == TRUE

\* line 74: if (active)
IsActive(run) == run.active

\* lines 73-74: generateTexturePNG resolved with the image of the captured
\* dependencies
GenResolve(r) ==
    /\ r \in 1..Len(runs)
    /\ runs[r].gen = "pending"
    /\ IF IsActive(runs[r])
       THEN /\ previewUrl' = Url(runs[r].version)
            /\ runs' = [runs EXCEPT ![r].gen = "applied"]
       ELSE /\ runs' = [runs EXCEPT ![r].gen = "discarded"]
            /\ UNCHANGED previewUrl
    /\ UNCHANGED <<nonPreview, mounted, visible, version, changes, cleanup>>

\* lines 75-77: generateTexturePNG rejected; the catch block logs
GenReject(r) ==
    /\ r \in 1..Len(runs)
    /\ runs[r].gen = "pending"
    /\ runs' = [runs EXCEPT ![r].gen = "rejected"]
    /\ UNCHANGED <<nonPreview, mounted, visible, version, changes, cleanup, previewUrl>>

NextPreview ==
    \/ Render
    \/ Unmount
    \/ Tick
    \/ \E r \in 1..(MaxChanges + 1) : TimerFire(r)
    \/ \E r \in 1..(MaxChanges + 1) : GenResolve(r)
    \/ \E r \in 1..(MaxChanges + 1) : GenReject(r)

\* after the mount: the first run of the effect
InitPreview ==
    /\ mounted = TRUE
    /\ visible \in BOOLEAN
    /\ version = 0
    /\ changes = 0
    /\ runs = Effect(<<>>, NoUrl, visible, 0).runs
    /\ cleanup = Effect(<<>>, NoUrl, visible, 0).cleanup
    /\ previewUrl = Effect(<<>>, NoUrl, visible, 0).previewUrl
    /\ IdleProc /\ IdleTrace /\ IdleRng /\ IdleWave /\ IdlePixelate /\ IdleBlur /\ IdleRest

SpecPreview == InitPreview /\ [][NextPreview]_vars

(***************************************************************************)
(* JavaScript values of the path library: a number is a fraction            *)
(* <<numerator, denominator>>, and the values that are no fraction have     *)
(* denominator 0: undefined, NaN, and a string                              *)
(***************************************************************************)
NaN == <<1, 0>>
AString == <<2, 0>>

Finite(v) == v[2] > 0

\* typeof v === 'number' (NaN is a number)
IsNumber(v) == Finite(v) \/ v = NaN

\* arithmetic: anything that is no finite number gives NaN
NAdd(a, b) == IF Finite(a) /\ Finite(b) THEN RAdd(a, b) ELSE NaN
NSub(a, b) == IF Finite(a) /\ Finite(b) THEN RSub(a, b) ELSE NaN
NMul(a, b) == IF Finite(a) /\ Finite(b) THEN RMul(a, b) ELSE NaN
NDiv(a, b) == IF Finite(a) /\ Finite(b) /\ b[1] # 0 THEN RDiv(a, b) ELSE NaN

\* a path command and the values printed after its letter
PathCmd(c, args) == [c |-> c, args |-> args]
CmdClose == PathCmd("Z", <<>>)

\* a returned string: the commands of a path description ("" has none)
Returned(cmds) == [returned |-> TRUE, d |-> cmds]

nonLib == <<procVars, traceVars, rngVars, waveVars, pixVars, blurVars, previewVars, graphVars>>

(***************************************************************************)
(* getSplinePath (shapeUtils)                                               *)
(***************************************************************************)
\* a point {x, y, type}
SplinePoint(x, y, type) == [x |-> x, y |-> y, type |-> type]

NumberTension(t) == [kind |-> "number", value |-> t]
PairTension(inner, outer) == [kind |-> "pair", inner |-> inner, outer |-> outer]

\* the two tensions taken the other way round
getTension_swapped(tension, pt) ==
    IF tension.kind = "number" THEN tension.value
    ELSE IF pt.type = "inner" THEN tension.outer
    ELSE tension.inner

\* lines 98-103: the tension of a point
getTension(tension, pt) ==
    IF tension.kind = "number" THEN tension.value
    ELSE IF pt.type = "inner" THEN tension.inner
    ELSE tension.outer

\* lines 106-109: points[(idx + n) % n], idx counted from 0
getPoint(points, i) == points[((i + Len(points)) % Len(points)) + 1]

\* line 112: typeof tension === 'number' && tension <= 0.01
IsLinear(tension) == tension.kind = "number" /\ RLe(tension.value, Rat(1, 100))

\* lines 120-143: the cubic from point i to point i + 1 (counted from 0)
SplineSegment(points, tension, i) ==
    LET p0 == getPoint(points, i)
        p1 == getPoint(points, i + 1)
        pm == getPoint(points, i - 1)
        p2 == getPoint(points, i + 2)
        t0 == getTension(tension, p0)
        t1 == getTension(tension, p1)
        t0x == NMul(NMul(NSub(p1.x, pm.x), t0), Rat(1, 4))
        t0y == NMul(NMul(NSub(p1.y, pm.y), t0), Rat(1, 4))
        t1x == NMul(NMul(NSub(p2.x, p0.x), t1), Rat(1, 4))
        t1y == NMul(NMul(NSub(p2.y, p0.y), t1), Rat(1, 4))
    IN  PathCmd("C", <<NAdd(p0.x, t0x), NAdd(p0.y, t0y),
                       NSub(p1.x, t1x), NSub(p1.y, t1y), p1.x, p1.y>>)

\* lines 90-147
getSplinePath(points, tension, closed) ==
    IF Len(points) < 2 THEN <<>>
    ELSE IF IsLinear(tension)
    THEN [i \in 1..Len(points) |->
             PathCmd(IF i = 1 THEN "M" ELSE "L", <<points[i].x, points[i].y>>)]
         \o (IF closed THEN <<CmdClose>> ELSE <<>>)
    ELSE LET n == IF closed THEN Len(points) ELSE Len(points) - 1
         IN  <<PathCmd("M", <<getPoint(points, 0).x, getPoint(points, 0).y>>)>>
             \o [i \in 1..n |-> SplineSegment(points, tension, i - 1)]
             \o (IF closed THEN <<CmdClose>> ELSE <<>>)

(***************************************************************************)
(* getBezierPath (shapeUtils)                                               *)
(***************************************************************************)
\* an entry of the points array: null, or an object with x, y and the two
\* handles, each handle an object {x, y} or left out (null)
Null == [null |-> TRUE]
Handle(x, y) == [null |-> FALSE, x |-> x, y |-> y]
BezierPoint(x, y, hIn, hOut) ==
    [null |-> FALSE, x |-> x, y |-> y, handleIn |-> hIn, handleOut |-> hOut]

\* line 157: p && typeof p.x === 'number' && typeof p.y === 'number'
safePt(pt) == ~pt.null /\ IsNumber(pt.x) /\ IsNumber(pt.y)

\* line 160: the test of the start point
safeStart(pt) == safePt(pt)

\* the handles ignored
ControlPoint_anchor(pt, h) == pt

\* lines 172-173, 183-184: a handle if it exists and is valid, else the anchor
ControlPoint(pt, h) == IF ~h.null /\ safePt(h) THEN h ELSE pt

\* lines 175, 185: the cubic from prev to pt
BezierSegment(prev, pt) ==
    LET cp1 == ControlPoint(prev, prev.handleOut)
        cp2 == ControlPoint(pt, pt.handleIn)
    IN  PathCmd("C", <<cp1.x, cp1.y, cp2.x, cp2.y, pt.x, pt.y>>)

\* lines 164-176: the segments up to point i (counted from 1)
RECURSIVE BezierSegments(_, _)
BezierSegments(points, i) ==
    IF i < 2 THEN <<>>
    ELSE BezierSegments(points, i - 1)
         \o (IF safePt(points[i]) /\ safePt(points[i - 1])
             THEN <<BezierSegment(points[i - 1], points[i])>> ELSE <<>>)

\* lines 153-190
getBezierPath(points, closed) ==
    IF Len(points) = 0 THEN <<>>
    ELSE IF ~safeStart(points[1]) THEN <<>>
    ELSE <<PathCmd("M", <<points[1].x, points[1].y>>)>>
         \o BezierSegments(points, Len(points))
         \o (IF closed /\ Len(points) > 1
                /\ safePt(points[Len(points)]) /\ safePt(points[1])
             THEN <<BezierSegment(points[Len(points)], points[1]), CmdClose>>
             ELSE <<>>)

(***************************************************************************)
(* getRectPath and getStarPath (shapeUtils)                                 *)
(***************************************************************************)
\* the radii {tl, tr, br, bl}
Radii(tl, tr, br, bl) == [tl |-> tl, tr |-> tr, br |-> br, bl |-> bl]

\* line 5: a radius left out is 0
RadiusOr0(v) == IF v = Undefined THEN RInt(0) ELSE v

\* "A rx ry 0 0 1 x y"
Arc(r, x, y) == PathCmd("A", <<r, r, RInt(0), RInt(0), RInt(1), x, y>>)

\* the arc at the top right corner ending before the side
getRectPath_shortArc(w, h, r) ==
    LET tl == RadiusOr0(r.tl)  tr == RadiusOr0(r.tr)
        br == RadiusOr0(r.br)  bl == RadiusOr0(r.bl)
    IN  << PathCmd("M", <<tl, RInt(0)>>),
           PathCmd("L", <<NSub(w, tr), RInt(0)>>),
           Arc(tr, w, RInt(0)),
           PathCmd("L", <<w, NSub(h, br)>>),
           Arc(br, NSub(w, br), h),
           PathCmd("L", <<bl, h>>),
           Arc(bl, RInt(0), NSub(h, bl)),
           PathCmd("L", <<RInt(0), tl>>),
           Arc(tl, tl, RInt(0)),
           CmdClose >>

\* lines 4-19
getRectPath(w, h, r) ==
    LET tl == RadiusOr0(r.tl)  tr == RadiusOr0(r.tr)
        br == RadiusOr0(r.br)  bl == RadiusOr0(r.bl)
    IN  << PathCmd("M", <<tl, RInt(0)>>),
           PathCmd("L", <<NSub(w, tr), RInt(0)>>),
           Arc(tr, w, tr),
           PathCmd("L", <<w, NSub(h, br)>>),
           Arc(br, NSub(w, br), h),
           PathCmd("L", <<bl, h>>),
           Arc(bl, RInt(0), NSub(h, bl)),
           PathCmd("L", <<RInt(0), tl>>),
           Arc(tl, tl, RInt(0)),
           CmdClose >>

\* the value cx + r * cos(2 * pi * turn) (or sin), the angle kept as a
\* fraction of a full turn
Polar(c, r, fn, turn) == [c |-> c, r |-> r, fn |-> fn, turn |-> turn]

\* the radii taken the other way round
StarRadius_swapped(i, outerR, innerR) == IF i % 2 = 0 THEN innerR ELSE outerR

\* line 29: (i % 2 === 0) ? outerR : innerR
StarRadius(i, outerR, innerR) == IF i % 2 = 0 THEN outerR ELSE innerR

\* lines 28-38: vertex i (counted from 0) of totalPoints
StarVertex(cx, cy, i, totalPoints, outerR, innerR) ==
    LET r == StarRadius(i, outerR, innerR)
        \* (Math.PI * 2 * i) / totalPoints - Math.PI / 2
        angle == RSub(Rat(i, totalPoints), Rat(1, 4))
    IN  PathCmd(IF i = 0 THEN "M" ELSE "L",
                <<Polar(cx, r, "cos", angle), Polar(cy, r, "sin", angle)>>)

\* lines 24-43, for a whole number of points
getStarPath(cx, cy, points, outerR, innerR) ==
    LET totalPoints == points * 2
    IN  [j \in 1..totalPoints |->
            StarVertex(cx, cy, j - 1, totalPoints, outerR, innerR)]
        \o <<CmdClose>>

(***************************************************************************)
(* Calls of the path library                                                *)
(***************************************************************************)
Arrays(pool) == UNION {[1..n -> pool] : n \in 0..MaxPoints}

SplinePool ==
    { SplinePoint(RInt(0), RInt(0), "outer"),
      SplinePoint(RInt(8), RInt(0), "inner"),
      SplinePoint(RInt(8), RInt(8), "undefined") }

Tensions ==
    { NumberTension(RInt(0)), NumberTension(Rat(1, 100)), NumberTension(Rat(1, 2)),
      PairTension(RInt(0), RInt(0)), PairTension(Rat(1, 100), Rat(1, 200)),
      PairTension(Rat(1, 2), RInt(0)), PairTension(RInt(0), Rat(1, 2)) }

BezierPool ==
    { BezierPoint(RInt(0), RInt(0), Handle(RInt(-2), RInt(0)), Handle(RInt(2), RInt(0))),
      BezierPoint(RInt(8), RInt(8), Handle(RInt(6), Undefined), Null),
      BezierPoint(RInt(4), Undefined, Null, Null),
      Null }

RadiusValues == {Undefined, RInt(0), RInt(2), RInt(10)}

Calls ==
    [fn : {"getSplinePath"}, points : Arrays(SplinePool), tension : Tensions,
     closed : BOOLEAN]
    \cup [fn : {"getBezierPath"}, points : Arrays(BezierPool), closed : BOOLEAN]
    \cup [fn : {"getRectPath"}, w : {RInt(8), RInt(12)}, h : {RInt(8), RInt(6)},
          r : [tl : RadiusValues, tr : RadiusValues, br : RadiusValues,
               bl : RadiusValues]]
    \cup [fn : {"getStarPath"}, c : {RInt(0), RInt(3)}, points : 1..MaxStarPoints,
          outerR : {RInt(100)}, innerR : {RInt(50), RInt(100)}]

CallSpline ==
    /\ call.fn = "getSplinePath" /\ ~path.returned
    /\ path' = Returned(getSplinePath(call.points, call.tension, call.closed))
    /\ UNCHANGED <<nonLib, call>>

CallBezier ==
    /\ call.fn = "getBezierPath" /\ ~path.returned
    /\ path' = Returned(getBezierPath(call.points, call.closed))
    /\ UNCHANGED <<nonLib, call>>

CallRect ==
    /\ call.fn = "getRectPath" /\ ~path.returned
    /\ path' = Returned(getRectPath(call.w, call.h, call.r))
    /\ UNCHANGED <<nonLib, call>>

CallStar ==
    /\ call.fn = "getStarPath" /\ ~path.returned
    /\ path' = Returned(getStarPath(call.c, call.c, call.points, call.outerR, call.innerR))
    /\ UNCHANGED <<nonLib, call>>

NextPaths == CallSpline \/ CallBezier \/ CallRect \/ CallStar

InitPaths ==
    /\ call \in Calls
    /\ path = NoPath
    /\ IdleProc /\ IdleTrace /\ IdleRng /\ IdleWave /\ IdlePixelate /\ IdleBlur
    /\ IdlePreview /\ IdleGraph

SpecPaths == InitPaths /\ [][NextPaths]_vars

(***************************************************************************)
(* Markup: the elements of a fragment's xml in document order, each with    *)
(* its depth and its attributes in written order.  A defs entry is a        *)
(* sequence of elements too                                                 *)
(***************************************************************************)
Attr(name, value) == [name |-> name, value |-> value]
Text(t) == [kind |-> "text", text |-> t]
Number(v) == [kind |-> "number", n |-> v]
PathData(cmds) == [kind |-> "d", d |-> cmds]
\* translate(x, y)
Translate(x, y) == [kind |-> "translate", x |-> x, y |-> y]
\* url(#id), and the value of an id attribute
UrlRef(id) == [kind |-> "url", id |-> id]
Id(id) == [kind |-> "id", id |-> id]

Element(tag, depth, attrs) == [tag |-> tag, depth |-> depth, attrs |-> attrs]

\* the random suffixes of an id
Suffixes == {"a", "b"}

\* generateId(prefix) (imported from svgUtils): what a call may return, the
\* prefix with any suffix; two calls may return the same id
generateId(prefix) == {[prefix |-> prefix, suffix |-> x] : x \in Suffixes}

\* lines 283 (part_000), 188, 224, 259, 302-303: the ids an operator mints,
\* in the order of its calls of generateId
MintedBy(type) ==
    CASE type = "BEAM" -> {<<g>> : g \in generateId("beamGrad")}
      [] type = "GLOW" -> {<<f>> : f \in generateId("glow")}
      [] type = "NEON" -> {<<f>> : f \in generateId("neon")}
      [] type = "SOFT_BLUR" -> {<<f>> : f \in generateId("blur")}
      [] type = "GRADIENT_FADE" ->
            {<<m, g>> : m \in generateId("fadeMask"), g \in generateId("fadeGrad")}
      [] OTHER -> {<<>>}

nonGraph == <<procVars, traceVars, rngVars, waveVars, pixVars, blurVars, previewVars, libVars>>

(***************************************************************************)
(* processShapeNode (part_000, lines 162-308)                               *)
(***************************************************************************)
\* lines 48-55
getEllipsePath(cx, cy, rx, ry) ==
    << PathCmd("M", <<NSub(cx, rx), cy>>),
       PathCmd("A", <<rx, ry, RInt(0), RInt(1), RInt(0), NAdd(cx, rx), cy>>),
       PathCmd("A", <<rx, ry, RInt(0), RInt(1), RInt(0), NSub(cx, rx), cy>>),
       CmdClose >>

\* line 62
WavySteps == 360

\* lines 64-67: x (or y) of step i, with curR = r + sin(angle * freq) * amp
\* and angle = i / steps of a full turn
WavyCoordinate(r, freq, amp, i, fn) ==
    [r |-> r, freq |-> freq, amp |-> amp, turn |-> Rat(i, WavySteps), fn |-> fn]

\* lines 60-72
getWavyPath(r, freq, amp) ==
    [j \in 1..(WavySteps + 1) |->
        PathCmd(IF j = 1 THEN "M" ELSE "L",
                <<WavyCoordinate(r, freq, amp, j - 1, "cos"),
                  WavyCoordinate(r, freq, amp, j - 1, "sin")>>)]
    \o <<CmdClose>>

\* lines 77-83
getBeamPath(len, topW, btmW) ==
    LET hLen == NDiv(len, RInt(2))
        hTop == NDiv(topW, RInt(2))
        hBtm == NDiv(btmW, RInt(2))
        Neg(v) == NSub(RInt(0), v)
    IN  << PathCmd("M", <<Neg(hTop), Neg(hLen)>>),
           PathCmd("L", <<hTop, Neg(hLen)>>),
           PathCmd("L", <<hBtm, hLen>>),
           PathCmd("L", <<Neg(hBtm), hLen>>),
           CmdClose >>

\* params.points of PATH and PEN: left out, something that is no array,
\* or an array
NoPoints == [kind |-> "undefined"]
NotAnArray == [kind |-> "string"]
PointArray(items) == [kind |-> "array", items |-> items]

\* an entry of the array: null, or an object with x, y, type and handles
ParamPoint(x, y, type, hIn, hOut) ==
    [null |-> FALSE, x |-> x, y |-> y, type |-> type,
     handleIn |-> hIn, handleOut |-> hOut]

\* lines 221, 249: Array.isArray(params.points) ? params.points : []
PointsOf(points) == IF points.kind = "array" THEN points.items ELSE <<>>

\* line 232: p && typeof p.x === 'number'
PathKeeps(p) == ~p.null /\ IsNumber(p.x)

\* line 252: p && typeof p.x === 'number' && typeof p.y === 'number'
PenKeeps(p) == ~p.null /\ IsNumber(p.x) /\ IsNumber(p.y)

\* lines 222-229: params.tension ?? 0, or the pair when tensionInner or
\* tensionOuter is set
PathTension(params) ==
    LET t == Nullish(params.tension, RInt(0))
    IN  IF params.tensionInner # Undefined \/ params.tensionOuter # Undefined
        THEN PairTension(Nullish(params.tensionInner, t),
                         Nullish(params.tensionOuter, t))
        ELSE NumberTension(t)

\* lines 238-240: the points used when the array is empty
DefaultTriangle(res) ==
    << SplinePoint(NMul(Rat(1, 2), res), NMul(Rat(1, 5), res), "outer"),
       SplinePoint(NMul(Rat(4, 5), res), NMul(Rat(4, 5), res), "inner"),
       SplinePoint(NMul(Rat(1, 5), res), NMul(Rat(4, 5), res), "inner") >>

\* the triangle standing in whenever the filter leaves no point
RenderPoints_fallback(points, res) ==
    LET kept == SelectSeq(points, PathKeeps)
    IN  IF Len(kept) > 0
        THEN [i \in 1..Len(kept) |->
                 SplinePoint(NMul(kept[i].x, res), NMul(kept[i].y, res), kept[i].type)]
        ELSE DefaultTriangle(res)

\* lines 231-241
RenderPoints(points, res) ==
    IF Len(points) > 0
    THEN LET kept == SelectSeq(points, PathKeeps)
         IN  [i \in 1..Len(kept) |->
                 SplinePoint(NMul(kept[i].x, res), NMul(kept[i].y, res), kept[i].type)]
    ELSE DefaultTriangle(res)

\* lines 257-261: typeof p.handleIn?.x === 'number' ? p.handleIn.x * resolution : px
HandleCoordinate(h, axis, res, anchor) ==
    IF ~h.null /\ IsNumber(h[axis]) THEN NMul(h[axis], res) ELSE anchor

\* lines 251-269
ScaledPoints(points, res) ==
    LET kept == SelectSeq(points, PenKeeps)
    IN  [i \in 1..Len(kept) |->
            LET pt == kept[i]
                px == NMul(pt.x, res)
                py == NMul(pt.y, res)
            IN  BezierPoint(px, py,
                    Handle(HandleCoordinate(pt.handleIn, "x", res, px),
                           HandleCoordinate(pt.handleIn, "y", res, py)),
                    Handle(HandleCoordinate(pt.handleOut, "x", res, px),
                           HandleCoordinate(pt.handleOut, "y", res, py)))]

\* params.points ?? 5, a whole number
StarPoints(v) == Nullish(v, RInt(5))[1]

\* lines 178-275: rawPath and transform; cx = cy = resolution / 2
RawPath(type, params, res) ==
    LET rres == RInt(res)
        scale == RDiv(rres, RInt(PreviewResolution))
        Scaled(v, dflt) == NMul(Nullish(v, RInt(dflt)), scale)
    IN  CASE type = "RECTANGLE" ->
                getRectPath(Scaled(params.width, 300), Scaled(params.height, 300),
                            Radii(Scaled(params.rTL, 0), Scaled(params.rTR, 0),
                                  Scaled(params.rBR, 0), Scaled(params.rBL, 0)))
          [] type = "CIRCLE" ->
                getEllipsePath(RInt(0), RInt(0),
                               NDiv(Scaled(params.width, 300), RInt(2)),
                               NDiv(Scaled(params.height, 300), RInt(2)))
          [] type = "POLYGON" ->
                getStarPath(RInt(0), RInt(0), StarPoints(params.points),
                            Scaled(params.outerRadius, 100),
                            Scaled(params.innerRadius, 50))
          [] type = "WAVY_RING" ->
                getWavyPath(Scaled(params.radius, 100),
                            Nullish(params.frequency, RInt(10)),
                            Scaled(params.amplitude, 10))
          [] type = "BEAM" ->
                getBeamPath(Scaled(params.length, 250), Scaled(params.topWidth, 5),
                            Scaled(params.bottomWidth, 100))
          [] type = "PATH" ->
                getSplinePath(RenderPoints(PointsOf(params.points), rres),
                              PathTension(params), TRUE)
          [] type = "PEN" ->
                getBezierPath(ScaledPoints(PointsOf(params.points), rres), TRUE)

\* every shape moved to the centre, the rectangle by its own centre too
TransformAttr_uncentred(type, params, res) ==
    <<Attr("transform", Translate(RDiv(RInt(res), RInt(2)), RDiv(RInt(res), RInt(2))))>>

\* lines 176, 189, 244, 272, 302: the attributes of the g element
TransformAttr(type, params, res) ==
    LET rres == RInt(res)
        scale == RDiv(rres, RInt(PreviewResolution))
        cx == RDiv(rres, RInt(2))
        w == NMul(Nullish(params.width, RInt(300)), scale)
        h == NMul(Nullish(params.height, RInt(300)), scale)
    IN  IF type \in {"PATH", "PEN"} THEN <<>>
        ELSE IF type = "RECTANGLE"
        THEN <<Attr("transform", Translate(NSub(cx, NDiv(w, RInt(2))),
                                          NSub(cx, NDiv(h, RInt(2)))))>>
        ELSE <<Attr("transform", Translate(cx, cx))>>

\* lines 278-300: fillAttr and strokeAttr
PaintAttrs(type, ids) ==
    IF type = "BEAM"
    THEN <<Attr("fill", UrlRef(ids[1])),
           Attr("stroke", Text("none"))>>
    ELSE IF type \in {"PEN", "PATH"}
    THEN <<Attr("fill", Text("white")), Attr("stroke", Text("white")),
           Attr("stroke-width", Number(RInt(2))),
           Attr("stroke-linejoin", Text("round"))>>
    ELSE <<Attr("fill", Text("white")), Attr("stroke", Text("none"))>>

\* lines 284-290: the gradient of the beam
BeamGradient(id) ==
    << Element("linearGradient", 0, <<Attr("id", Id(id))>>),
       Element("stop", 1, <<Attr("offset", Text("0%"))>>),
       Element("stop", 1, <<Attr("offset", Text("60%"))>>),
       Element("stop", 1, <<Attr("offset", Text("100%"))>>) >>

\* lines 162-308
processShapeNode(type, params, res, ids) ==
    SVGResult(
        << Element("g", 0, TransformAttr(type, params, res)),
           Element("path", 1,
                   <<Attr("d", PathData(RawPath(type, params, res)))>>
                   \o PaintAttrs(type, ids)) >>,
        IF type = "BEAM" THEN <<BeamGradient(ids[1])>>
        ELSE <<>>)


(***************************************************************************)
(* Calls of processShapeNode                                                *)
(***************************************************************************)
\* entries of params.points, in the unit square
ParamPool ==
    { ParamPoint(Rat(1, 2), Rat(1, 4), "outer", Handle(Rat(1, 4), Rat(1, 4)), Null),
      ParamPoint(Rat(3, 4), Rat(3, 4), "inner", Handle(Rat(1, 2), Undefined),
                 Handle(RInt(1), RInt(1))),
      ParamPoint(Rat(1, 4), Undefined, "outer", Null, Null),
      ParamPoint(Rat(1, 8), AString, "undefined", Null, Null),
      ParamPoint(Undefined, Rat(1, 2), "inner", Null, Null),
      Null }

PointsValues == {NoPoints, NotAnArray} \cup {PointArray(a) : a \in Arrays(ParamPool)}

ShapeParams ==
    [type : {"RECTANGLE"}, width : {Undefined, RInt(100)},
     height : {Undefined, RInt(200)},
     rTL : {Undefined, RInt(20)}, rTR : {Undefined}, rBR : {Undefined},
     rBL : {Undefined}]
    \cup [type : {"CIRCLE"}, width : {Undefined, RInt(200)}, height : {Undefined}]
    \cup [type : {"POLYGON"}, points : {Undefined, RInt(3)},
          outerRadius : {Undefined}, innerRadius : {Undefined, RInt(80)}]
    \cup [type : {"WAVY_RING"}, radius : {Undefined}, frequency : {Undefined},
          amplitude : {Undefined}]
    \cup [type : {"BEAM"}, length : {Undefined, RInt(100)}, topWidth : {Undefined},
          bottomWidth : {Undefined}]
    \cup [type : {"PATH"}, points : PointsValues, tension : {Undefined},
          tensionInner : {Undefined, Rat(1, 2)}, tensionOuter : {Undefined}]
    \cup [type : {"PEN"}, points : PointsValues]

ShapeResolutions == {PreviewResolution, 2 * PreviewResolution}

ShapeCalls ==
    [fn : {"processShapeNode"}, params : ShapeParams, resolution : ShapeResolutions]

\* the step of a chain: the operator and its parameters
Step(type, params) == [op |-> type, params |-> params]

ShapeNode ==
    /\ call.fn = "processShapeNode" /\ frag = NoFragment
    /\ \E ids \in MintedBy(call.params.type) :
          /\ frag' = processShapeNode(call.params.type, call.params, call.resolution, ids)
          /\ minted' = minted \o ids
    /\ chain' = <<Step(call.params.type, call.params)>>
    /\ UNCHANGED <<nonGraph, prevFrag>>

NextShape == ShapeNode

InitShape ==
    /\ call \in ShapeCalls
    /\ path = NoPath
    /\ IdleProc /\ IdleTrace /\ IdleRng /\ IdleWave /\ IdlePixelate /\ IdleBlur
    /\ IdlePreview /\ IdleGraph

SpecShape == InitShape /\ [][NextShape]_vars

(***************************************************************************)
(* processFilterNode (filterNodes.ts, lines 148-323): the six operators on  *)
(* markup                                                                   *)
(***************************************************************************)
\* lines 167-171, 279-283: newXml.replace(/\s<attr>="[^"]*"/g, ' ') for each
\* attribute name: the attribute goes wherever it stands in the markup
RemoveAttributes(xml, names) ==
    [i \in 1..Len(xml) |->
        [xml[i] EXCEPT !.attrs = SelectSeq(@, LAMBDA a : a.name \notin names)]]

\* lines 173, 285
DrawableTags == {"path", "rect", "circle", "polygon", "ellipse"}

\* lines 174-177, 286-289: the attributes written right after the tag name
\* of every element of the tags
InsertAttributes(xml, tags, attrs) ==
    [i \in 1..Len(xml) |->
        IF xml[i].tag \in tags THEN [xml[i] EXCEPT !.attrs = attrs \o @]
        ELSE xml[i]]

\* params.fillEnabled ?? true
FillEnabled(v) == IF v = "undefined" THEN TRUE ELSE v = "true"

\* v > 0: false for NaN and for what converts to NaN
Positive(v) == Finite(v) /\ RLt(RInt(0), v)

\* the stroke width written as given
FillAttrs_rawWidth(params) ==
    LET fillEnabled == FillEnabled(params.fillEnabled)
        strokeWidth == Nullish(params.strokeWidth, RInt(0))
    IN  << Attr("fill", Text(IF fillEnabled THEN "white" ELSE "none")),
           Attr("stroke", Text(IF Positive(strokeWidth) \/ ~fillEnabled
                               THEN "white" ELSE "none")),
           Attr("stroke-width", Number(strokeWidth)) >>

\* lines 158-163: fillAttr, strokeAttr, widthAttr
FillAttrs(params) ==
    LET fillEnabled == FillEnabled(params.fillEnabled)
        strokeWidth == Nullish(params.strokeWidth, RInt(0))
    IN  << Attr("fill", Text(IF fillEnabled THEN "white" ELSE "none")),
           Attr("stroke", Text(IF Positive(strokeWidth) \/ ~fillEnabled
                               THEN "white" ELSE "none")),
           Attr("stroke-width", Number(IF Positive(strokeWidth)
                                       THEN strokeWidth ELSE RInt(1))) >>

\* lines 276-277, 288
StrokeAttrs(params) ==
    << Attr("stroke", Text("white")),
       Attr("stroke-width", Number(Nullish(params.width, RInt(1)))),
       Attr("stroke-opacity", Number(Nullish(params.opacity, RInt(1)))) >>

\* lines 216, 252, 268, 316: <g attr="url(#id)">${input.xml}</g>
Wrap(name, id, xml) ==
    <<Element("g", 0, <<Attr(name, UrlRef(id))>>)>>
    \o [i \in 1..Len(xml) |-> [xml[i] EXCEPT !.depth = @ + 1]]

\* lines 193-213, 229-249: the filter of GLOW and NEON
GlowFilter(id, layer1, layer2, intensity) ==
    << Element("filter", 0, <<Attr("id", Id(id))>>),
       Element("feGaussianBlur", 1, <<Attr("stdDeviation", Number(layer1))>>),
       Element("feGaussianBlur", 1, <<Attr("stdDeviation", Number(layer2))>>),
       Element("feMerge", 1, <<>>),
       Element("feColorMatrix", 1, <<Attr("values", Number(intensity))>>),
       Element("feMerge", 1, <<>>) >>

\* lines 261-265
BlurFilter(id, radius) ==
    << Element("filter", 0, <<Attr("id", Id(id))>>),
       Element("feGaussianBlur", 1, <<Attr("stdDeviation", Number(radius))>>) >>

\* lines 305-314: the gradient and the mask painted with it
FadeMask(maskId, gradId, directionDeg, start, end) ==
    << Element("linearGradient", 0,
               <<Attr("id", Id(gradId)),
                 Attr("gradientTransform", Number(NSub(directionDeg, RInt(90))))>>),
       Element("stop", 1, <<Attr("stop-opacity", Number(start))>>),
       Element("stop", 1, <<Attr("stop-opacity", Number(end))>>),
       Element("mask", 0, <<Attr("id", Id(maskId))>>),
       Element("rect", 1, <<Attr("fill", UrlRef(gradId))>>) >>

\* the operator returning the defs it was given
AppendDef_dropped(defs, newDef) == defs

\* lines 217, 253, 269, 317: [...input.defs, newDef]
AppendDef(defs, newDef) == Append(defs, newDef)

\* lines 148-323, for a fragment
\* line 154: { xml: '', defs: [] }, the markup as a sequence of no elements
EmptyResult == SVGResult(<<>>, <<>>)

\* the ids minted before the input is looked at
MintedIn_eager(input_, ids) == ids

\* lines 154, 188, 224, 259, 302-303: the calls of generateId that
\* processFilterNode makes: none when line 154 returns, else those of the case
MintedIn(input_, ids) == IF input_ = NoInput THEN <<>> ELSE ids

processFilterNode(type, params, input_, ids) ==
    IF input_ = NoInput THEN EmptyResult
    ELSE
    CASE type = "FILL" ->
            SVGResult(InsertAttributes(
                          RemoveAttributes(input_.xml, {"fill", "stroke", "stroke-width"}),
                          DrawableTags, FillAttrs(params)),
                      input_.defs)
      [] type = "STROKE" ->
            SVGResult(InsertAttributes(
                          RemoveAttributes(input_.xml,
                                           {"stroke", "stroke-width", "stroke-opacity"}),
                          DrawableTags, StrokeAttrs(params)),
                      input_.defs)
      [] type = "GLOW" ->
            LET radius == Nullish(params.radius, RInt(20))
                intensity == Nullish(params.intensity, Rat(3, 2))
                filterId == ids[1]
            IN  SVGResult(Wrap("filter", filterId, input_.xml),
                          AppendDef(input_.defs,
                                    GlowFilter(filterId, NAdd(RInt(10), radius),
                                               NDiv(radius, RInt(3)), intensity)))
      [] type = "NEON" ->
            LET radius == Nullish(params.radius, RInt(15))
                intensity == Nullish(params.intensity, RInt(2))
                filterId == ids[1]
            IN  SVGResult(Wrap("filter", filterId, input_.xml),
                          AppendDef(input_.defs,
                                    GlowFilter(filterId, radius,
                                               NDiv(radius, RInt(4)), intensity)))
      [] type = "SOFT_BLUR" ->
            LET radius == Nullish(params.radius, RInt(5))
                filterId == ids[1]
            IN  SVGResult(Wrap("filter", filterId, input_.xml),
                          AppendDef(input_.defs, BlurFilter(filterId, radius)))
      [] type = "GRADIENT_FADE" ->
            LET maskId == ids[1]
                gradId == ids[2]
            IN  SVGResult(Wrap("mask", maskId, input_.xml),
                          AppendDef(input_.defs,
                                    FadeMask(maskId, gradId,
                                             Nullish(params.direction, RInt(90)),
                                             Nullish(params.start, RInt(1)),
                                             Nullish(params.end, RInt(0)))))
      [] OTHER -> input_

(***************************************************************************)
(* Chains of operators                                                      *)
(***************************************************************************)
FilterParams ==
    [type : {"FILL"}, fillEnabled : {"undefined", "true", "false"},
     strokeWidth : {Undefined, RInt(0), RInt(3), RInt(-1), NaN}]
    \cup [type : {"STROKE"}, width : {Undefined, RInt(2)},
          opacity : {Undefined, Rat(1, 2)}]
    \cup [type : {"GLOW", "NEON"}, radius : {Undefined, RInt(6)},
          intensity : {Undefined}]
    \cup [type : {"SOFT_BLUR"}, radius : {Undefined, RInt(2)}]
    \cup [type : {"GRADIENT_FADE"}, direction : {Undefined, RInt(0)},
          start : {Undefined}, end : {Undefined}]

\* the parameters each shape starts a chain with
SourceParams ==
    { sp \in ShapeParams :
        /\ sp.type \in {"RECTANGLE", "CIRCLE"} => sp.width = Undefined
        /\ sp.type = "RECTANGLE" => sp.rTL = Undefined /\ sp.height = Undefined
        /\ sp.type = "POLYGON" => sp.points = Undefined /\ sp.innerRadius = Undefined
        /\ sp.type = "BEAM" => sp.length = Undefined
        /\ sp.type = "PATH" => sp.points = NoPoints /\ sp.tensionInner = Undefined
        /\ sp.type = "PEN" =>
              /\ sp.points.kind = "array" /\ Len(sp.points.items) = 2
              /\ \A i \in 1..2 : PenKeeps(sp.points.items[i])
              /\ sp.points.items[1] # sp.points.items[2] }

\* a fragment handed in by an operator that is not one of these sources:
\* <g fill="white"><line stroke="white" stroke-width="2" /><path d="..." /></g>
GroupFragment ==
    SVGResult(<< Element("g", 0, <<Attr("fill", Text("white"))>>),
                 Element("line", 1, <<Attr("stroke", Text("white")),
                                      Attr("stroke-width", Number(RInt(2)))>>),
                 Element("path", 1,
                         <<Attr("d", PathData(getBeamPath(RInt(8), RInt(2), RInt(4))))>>) >>,
              <<>>)

\* a further operator may be applied to the fragment at the end of the chain
Applicable == frag # NoFragment /\ call = NoCall /\ Len(chain) <= MaxChain

\* the operator applied to that fragment
Applied(type, params, ids) ==
    /\ params.type = type
    /\ frag' = processFilterNode(type, params, frag, ids)
    /\ chain' = Append(chain, Step(type, params))
    /\ prevFrag' = frag
    /\ minted' = minted \o ids
    /\ UNCHANGED nonGraph

Fill ==
    /\ Applicable
    /\ \E params \in FilterParams, ids \in MintedBy("FILL") :
          Applied("FILL", params, ids)

Stroke ==
    /\ Applicable
    /\ \E params \in FilterParams, ids \in MintedBy("STROKE") :
          Applied("STROKE", params, ids)

Glow ==
    /\ Applicable
    /\ \E params \in FilterParams, ids \in MintedBy("GLOW") :
          Applied("GLOW", params, ids)

Neon ==
    /\ Applicable
    /\ \E params \in FilterParams, ids \in MintedBy("NEON") :
          Applied("NEON", params, ids)

SoftBlur ==
    /\ Applicable
    /\ \E params \in FilterParams, ids \in MintedBy("SOFT_BLUR") :
          Applied("SOFT_BLUR", params, ids)

GradientFade ==
    /\ Applicable
    /\ \E params \in FilterParams, ids \in MintedBy("GRADIENT_FADE") :
          Applied("GRADIENT_FADE", params, ids)

NextFilter == Fill \/ Stroke \/ Glow \/ Neon \/ SoftBlur \/ GradientFade

InitFilter ==
    /\ \/ \E sp \in SourceParams : \E ids \in MintedBy(sp.type) :
             /\ frag = processShapeNode(sp.type, sp, PreviewResolution, ids)
             /\ chain = <<Step(sp.type, sp)>>
             /\ minted = ids
       \/ /\ frag = GroupFragment
          /\ chain = <<Step("INPUT", <<>>)>>
          /\ minted = <<>>
    /\ prevFrag = NoFragment
    /\ IdleProc /\ IdleTrace /\ IdleRng /\ IdleWave /\ IdlePixelate /\ IdleBlur
    /\ IdlePreview /\ IdleLib

SpecFilter == InitFilter /\ [][NextFilter]_vars

(***************************************************************************)
(* One call of a node function on an input that may be null                *)
(***************************************************************************)
FilterTypes == {"FILL", "STROKE", "GLOW", "NEON", "SOFT_BLUR", "GRADIENT_FADE"}

\* the members of NodeType the sources name
NodeTypes ==
    FilterTypes
    \cup {"RECTANGLE", "CIRCLE", "POLYGON", "WAVY_RING", "BEAM", "PATH", "PEN"}
    \cup {"TRACE", "PIXELATE", "TRANSLATE", "ROTATE", "SCALE", "POLAR", "VALUE",
          "ADD", "SUBTRACT", "MULTIPLY", "DIVIDE", "IMAGE", "GRADIENT", "COLOR",
          "ALPHA", "OUTPUT"}

\* what processFilterNode is handed as input: null, a group, a beam
NodeInputs ==
    {NoInput, GroupFragment}
    \cup {processShapeNode("BEAM", sp, PreviewResolution, ids) :
            sp \in {e \in SourceParams : e.type = "BEAM"}, ids \in MintedBy("BEAM")}

FilterCalls ==
    {[fn |-> "processFilterNode", params |-> prm, input |-> inp] :
        prm \in FilterParams \cup [type : NodeTypes \ FilterTypes], inp \in NodeInputs}

\* the ids generateId returns to the case of a type: no case, no call
CaseMints(type) == IF type \in FilterTypes THEN MintedBy(type) ELSE {<<>>}

\* lines 148-323: processFilterNode(type, params, resolution, input)
FilterNode ==
    /\ call.fn = "processFilterNode" /\ chain = <<>>
    /\ \E ids \in CaseMints(call.params.type) :
          /\ frag' = processFilterNode(call.params.type, call.params, call.input, ids)
          /\ minted' = minted \o MintedIn(call.input, ids)
    /\ chain' = <<Step(call.params.type, call.params)>>
    /\ prevFrag' = call.input
    /\ UNCHANGED nonGraph

InitFilterCall ==
    /\ call \in FilterCalls
    /\ path = NoPath
    /\ IdleProc /\ IdleTrace /\ IdleRng /\ IdleWave /\ IdlePixelate /\ IdleBlur
    /\ IdlePreview /\ IdleGraph

InitNodes == InitTrace \/ InitPixelate \/ InitBlur \/ InitFilterCall

NextNodes == NextTrace \/ NextPixelate \/ NextBlur \/ FilterNode

SpecNodes == InitNodes /\ [][NextNodes]_vars

(***************************************************************************)
(* mulberry32: generators side by side                                     *)
(***************************************************************************)
\* the default seed and the two ends of the 32-bit range
Seeds == {Word(DefaultSeed), <<0, 0>>, <<H - 1, H - 1>>}

nonRng == <<procVars, traceVars, waveVars, pixVars, blurVars, previewVars, restVars>>

\* mulberry32(seed): a new closure that captures a = seed
Create(seed) ==
    /\ Len(gens) < MaxGens
    /\ gens' = Append(gens, [seed |-> seed, a |-> seed, out |-> <<>>])
    /\ UNCHANGED nonRng

\* every closure works on one variable a shared by all of them
Draw_shared(g) ==
    /\ g \in 1..Len(gens)
    /\ Len(gens[g].out) < MaxDraws
    /\ LET r == mulberry32(gens[1].a)
       IN  gens' = [h \in 1..Len(gens) |->
                      [seed |-> gens[h].seed,
                       a |-> IF h = 1 THEN r.a ELSE gens[h].a,
                       out |-> IF h = g THEN Append(gens[h].out, r.value)
                                        ELSE gens[h].out]]
    /\ UNCHANGED nonRng

\* one call of closure g: it advances its own a and returns a value
Draw(g) ==
    /\ g \in 1..Len(gens)
    /\ Len(gens[g].out) < MaxDraws
    /\ LET r == mulberry32(gens[g].a)
       IN  gens' = [gens EXCEPT ![g] =
                      [seed |-> gens[g].seed, a |-> r.a,
                       out |-> Append(gens[g].out, r.value)]]
    /\ UNCHANGED nonRng

NextPRNG ==
    \/ \E seed \in Seeds : Create(seed)
    \/ \E g \in 1..MaxGens : Draw(g)

InitPRNG ==
    /\ gens = <<>>
    /\ IdleProc /\ IdleTrace /\ IdleWave /\ IdlePixelate /\ IdleBlur /\ IdlePreview /\ IdleRest

SpecPRNG == InitPRNG /\ [][NextPRNG]_vars

(***************************************************************************)
(* C9: generators created from the same seed return the same values draw    *)
(* for draw, whatever the other generators do in between; a generator's     *)
(* state is its seed advanced once per draw; every value returned is an     *)
(* unsigned 32-bit integer (over 2^32, hence in [0, 1)).                    *)
(***************************************************************************)
RECURSIVE Advanced(_, _)
Advanced(seed, n) == IF n = 0 THEN seed ELSE WAdd(Advanced(seed, n - 1), Increment)

IsUint32(w) == w[1] \in 0..(H - 1) /\ w[2] \in 0..(H - 1)

C9_SeededDeterminism ==
    /\ \A g, h \in 1..Len(gens) :
          gens[g].seed = gens[h].seed =>
              \A i \in 1..Len(gens[g].out) :
                  i <= Len(gens[h].out) => gens[g].out[i] = gens[h].out[i]
    /\ \A g \in 1..Len(gens) :
          /\ gens[g].a = Advanced(gens[g].seed, Len(gens[g].out))
          /\ \A i \in 1..Len(gens[g].out) : IsUint32(gens[g].out[i])

\* two generators of one seed that have both drawn every value, one of the
\* values having its top bit set
C9_Witness ==
    /\ Len(gens) = 2
    /\ gens[1].seed = gens[2].seed
    /\ Len(gens[1].out) = MaxDraws /\ Len(gens[2].out) = MaxDraws
    /\ gens[1].out = gens[2].out
    /\ \E i \in 1..MaxDraws : gens[1].out[i][1] >= 32768

(***************************************************************************)
(* The stitching pass on an arbitrary segment map                          *)
(***************************************************************************)
StitchKeys == {<<i, 0>> : i \in 1..NKeys}

\* an end point at which no segment starts
DeadEnd == <<0, 0>>

\* every map of at most NKeys entries from keys to end points, in every
\* insertion order (a value that is no key of the map is a dead end)
SegmentMaps ==
    UNION {{m \in [1..n -> StitchKeys \X (StitchKeys \cup {DeadEnd})] :
                \A i, j \in 1..n : i # j => m[i][1] # m[j][1]} : n \in 0..NKeys}

\* a grid of side f has 2*f*(f-1) cell-edge midpoints, so a map recorded at
\* fidelity f has at most that many keys: the least such f for NKeys keys
StitchFidelity ==
    CHOOSE f \in 2..(NKeys + 2) :
        /\ 2 * f * (f - 1) >= NKeys
        /\ \A g \in 2..(f - 1) : 2 * g * (g - 1) < NKeys

InitStitch ==
    /\ op = "trace"
    /\ input \in InputFragments
    /\ resolution = PreviewResolution
    /\ pc = "stitch"
    /\ outcome = "pending"
    /\ result = EmptyFragment
    /\ rasterCalls = 1
    /\ fault = "none"
    /\ fidelity = StitchFidelity
    /\ invert = FALSE
    /\ bitmap = {}
    /\ segs = <<>>
    /\ nextMap \in SegmentMaps
    /\ d = <<>>
    /\ visited = {}
    /\ idx = 1
    /\ startKey = NoKey
    /\ curr = NoKey
    /\ steps = 0
    /\ IdleRng /\ IdleWave /\ IdlePixelate /\ IdleBlur /\ IdlePreview /\ IdleRest

SpecStitch == InitStitch /\ [][NextStitch]_vars

\* the stitching pass is one synchronous loop: it keeps running
SpecStitchFair == SpecStitch /\ WF_vars(NextStitch)

(***************************************************************************)
(* Reading a path: its subpaths                                            *)
(***************************************************************************)
SubStarts(dd) == {i \in 1..Len(dd) : dd[i].c = "M"}

\* last command of the subpath that starts at i
SubEnd(dd, i) ==
    IF \E j \in SubStarts(dd) : j > i
    THEN (CHOOSE j \in SubStarts(dd) : j > i /\ \A h \in SubStarts(dd) : h > i => j <= h) - 1
    ELSE Len(dd)

SubClosed(dd, i) == dd[SubEnd(dd, i)].c = "Z"

\* the last lineto of the subpath that starts at i
SubLastL(dd, i) == IF SubClosed(dd, i) THEN SubEnd(dd, i) - 1 ELSE SubEnd(dd, i)

KeyBefore(dd, key, t) == \E h \in 1..(t - 1) : dd[h].c # "Z" /\ dd[h].key = key

\* the stitching pass has emitted all of d
Stitched == op = "trace" /\ fault = "none" /\ pc \in {"pathData", "done"} /\ rasterCalls > 0

(***************************************************************************)
(* C3: every subpath starts at a segment start not visited before and      *)
(* follows the next pointers; it ends with Z exactly when the walk comes    *)
(* back to its own start key, and otherwise ends open at a key without an   *)
(* outgoing segment or at a key visited before.                            *)
(***************************************************************************)
SubpathWellFormed(dd, m, i) ==
    LET l == SubLastL(dd, i)
    IN  /\ l >= i + 1
        /\ \A t \in (i + 1)..l : dd[t].c = "L"
        /\ MapHas(m, dd[i].key)
        /\ ~KeyBefore(dd, dd[i].key, i)
        /\ \A t \in (i + 1)..l :
              MapHas(m, dd[t - 1].key) /\ dd[t].key = MapGet(m, dd[t - 1].key)
        /\ \A t \in (i + 1)..(l - 1) :
              dd[t].key # dd[i].key /\ ~KeyBefore(dd, dd[t].key, t)
        /\ SubClosed(dd, i) <=> dd[l].key = dd[i].key
        /\ ~SubClosed(dd, i) =>
              \/ ~MapHas(m, dd[l].key)
              \/ KeyBefore(dd, dd[l].key, l)

C3_ClosedIffBackAtStart ==
    Stitched =>
        /\ d # <<>> => d[1].c = "M"
        /\ \A i \in SubStarts(d) : SubpathWellFormed(d, nextMap, i)

\* a finished pass that emitted a closed subpath, an open one that ran into
\* a visited key and an open one that ran into a dead end
C3_Witness ==
    /\ Stitched
    /\ \E i \in SubStarts(d) : SubClosed(d, i)
    /\ \E i \in SubStarts(d) :
          ~SubClosed(d, i) /\ KeyBefore(d, d[SubLastL(d, i)].key, SubLastL(d, i))
    /\ \E i \in SubStarts(d) :
          ~SubClosed(d, i) /\ ~MapHas(nextMap, d[SubLastL(d, i)].key)

(***************************************************************************)
(* C6: the stitching pass terminates on every segment map: a walk's step    *)
(* counter stays below 2*fidelity^2, no start key begins two subpaths, and  *)
(* the pass reaches its end.                                               *)
(***************************************************************************)
StartsOnce ==
    \A i, j \in SubStarts(d) : i # j => d[i].key # d[j].key

C6_StitchTerminates ==
    /\ [](steps < maxSteps /\ StartsOnce /\ idx <= Len(nextMap) + 1)
    /\ <>(pc = "done")

\* a walk caught in a cycle that does not contain its start: it has come
\* back to a key it emitted itself and stopped there
C6_Witness ==
    /\ Stitched
    /\ \E i \in SubStarts(d) :
          LET l == SubLastL(d, i)
          IN  /\ ~SubClosed(d, i)
              /\ \E t \in (i + 1)..(l - 1) : d[t].key = d[l].key

(***************************************************************************)
(* Reading the marched field                                               *)
(***************************************************************************)
\* the samples that binarize to 1
OnSet == {p \in Pixels(fidelity) : getState(bitmap, invert, fidelity, p[1], p[2]) = 1}

\* the marching loop has just run
Marched == op = "trace" /\ fault = "none" /\ pc = "stitch" /\ idx = 1 /\ rasterCalls > 0

Cells == (0..(fidelity - 2)) \X (0..(fidelity - 2))

SegsOf(x, y) == {j \in 1..Len(segs) : segs[j].x = x /\ segs[j].y = y}

\* state of the corner at doubled cell coordinates (cx2, cy2) of cell (x, y)
Corner(x, y, cx2, cy2) ==
    getState(bitmap, invert, fidelity, x + cx2 \div 2, y + cy2 \div 2)

CornerPoints == {<<0, 0>>, <<2, 0>>, <<2, 2>>, <<0, 2>>}

\* the 4-bit pattern of a cell, read off its corners
Pattern(x, y) ==
    Corner(x, y, 0, 0) * 8 + Corner(x, y, 2, 0) * 4
        + Corner(x, y, 2, 2) * 2 + Corner(x, y, 0, 2)

\* (px, py) is the midpoint of a cell edge whose two end corners differ
CrossedEdgeMidpoint(x, y, px, py) ==
    \/ /\ px = 1 /\ py \in {0, 2}
       /\ Corner(x, y, 0, py) # Corner(x, y, 2, py)
    \/ /\ py = 1 /\ px \in {0, 2}
       /\ Corner(x, y, px, 0) # Corner(x, y, px, 2)

\* which side of the directed line a corner lies on, y pointing down:
\* positive on the right-hand side, negative on the left
Side(line, c) ==
    (line[3] - line[1]) * (c[2] - line[2]) - (line[4] - line[2]) * (c[1] - line[1])

(***************************************************************************)
(* C5: a cell of pattern 0 or 15 records no segment, a saddle (5, 10) two,  *)
(* every other pattern one; each segment joins the midpoints of two cell    *)
(* edges whose end corners differ, and is directed with 'on' corners on its *)
(* right: every corner on its right is on, every off corner is on its left. *)
(***************************************************************************)
SegmentCount(pat) == IF pat \in {0, 15} THEN 0 ELSE IF pat \in {5, 10} THEN 2 ELSE 1

C5_CaseTable ==
    Marched =>
        /\ \A i \in 0..15 : Len(CASES(i)) = SegmentCount(i)
        /\ \A c \in Cells :
              Cardinality(SegsOf(c[1], c[2])) = SegmentCount(Pattern(c[1], c[2]))
        /\ \A j \in 1..Len(segs) :
              LET s == segs[j]
              IN  /\ CrossedEdgeMidpoint(s.x, s.y, s.line[1], s.line[2])
                  /\ CrossedEdgeMidpoint(s.x, s.y, s.line[3], s.line[4])
                  /\ <<s.line[1], s.line[2]>> # <<s.line[3], s.line[4]>>
                  /\ \E c \in CornerPoints : Side(s.line, c) > 0
                  /\ \A c \in CornerPoints :
                        /\ Side(s.line, c) > 0 => Corner(s.x, s.y, c[1], c[2]) = 1
                        /\ Corner(s.x, s.y, c[1], c[2]) = 0 => Side(s.line, c) < 0

\* a marched field with both saddles, an empty cell and a one-segment cell
C5_Witness ==
    /\ Marched
    /\ \E c \in Cells : Pattern(c[1], c[2]) = 5 /\ Cardinality(SegsOf(c[1], c[2])) = 2
    /\ \E c \in Cells : Pattern(c[1], c[2]) = 10 /\ Cardinality(SegsOf(c[1], c[2])) = 2
    /\ \E c \in Cells : Pattern(c[1], c[2]) = 0
    /\ \E c \in Cells : Pattern(c[1], c[2]) = 7 /\ Cardinality(SegsOf(c[1], c[2])) = 1

(***************************************************************************)
(* C4: a field whose 'on' samples are one filled disk strictly inside the   *)
(* grid is traced to exactly one subpath, which is closed, and whose        *)
(* bounding box is within one grid cell (resolution/fidelity) of the        *)
(* disk's.                                                                  *)
(***************************************************************************)
InteriorDisk ==
    /\ OnSet # {}
    /\ OnSet \in DiskBitmaps
    /\ \A p \in OnSet : p[1] \in 1..(fidelity - 2) /\ p[2] \in 1..(fidelity - 2)

Min(S) == CHOOSE m \in S : \A n \in S : m <= n
Max(S) == CHOOSE m \in S : \A n \in S : m >= n
PathXs == {d[i].key[1] : i \in {h \in 1..Len(d) : d[h].c # "Z"}}
PathYs == {d[i].key[2] : i \in {h \in 1..Len(d) : d[h].c # "Z"}}

\* a path coordinate (in hundredths) is within one grid cell of sample v
WithinOneCell(coord, v) ==
    Abs(coord * fidelity - 100 * v * resolution) <= 100 * resolution

C4_DiskOneClosedSubpath ==
    (Stitched /\ InteriorDisk) =>
        /\ Cardinality(SubStarts(d)) = 1
        /\ d[1].c = "M"
        /\ d[Len(d)].c = "Z"
        /\ WithinOneCell(Min(PathXs), Min({p[1] : p \in OnSet}))
        /\ WithinOneCell(Max(PathXs), Max({p[1] : p \in OnSet}))
        /\ WithinOneCell(Min(PathYs), Min({p[2] : p \in OnSet}))
        /\ WithinOneCell(Max(PathYs), Max({p[2] : p \in OnSet}))

\* a traced interior disk of more than one sample
C4_Witness ==
    /\ Stitched /\ InteriorDisk /\ pc = "done"
    /\ Cardinality(OnSet) >= 5
    /\ result = TracePath(d)

(***************************************************************************)
(* C1: processTraceNode returns the empty fragment when rasterizing its     *)
(* input fails (svgToDataUrl rejects, or the image fails to load) and when  *)
(* its input is null.                                                       *)
(***************************************************************************)
C1_EmptyOnRasterFailure ==
    (op = "trace" /\ pc = "done"
        /\ (input = NoInput \/ fault \in {"reject", "imgerror"}))
    => result = EmptyFragment

(***************************************************************************)
(* processWaveNode: the soft threshold and the base field                   *)
(***************************************************************************)
Rendered == op = "wave" /\ pc = "done" /\ alphaVal # NoPixels

\* the mapping as the specification words it
ExpectedAlpha(m, threshold, soft) ==
    IF RLt(Rat(1, 1000), soft)
    THEN IF RLe(m, RSub(threshold, soft)) THEN RInt(0)
         ELSE IF RLe(RAdd(threshold, soft), m) THEN RInt(255)
         ELSE RDiv(RMul(RInt(255), RSub(m, RSub(threshold, soft))),
                   RMul(RInt(2), soft))
    ELSE IF RLt(threshold, m) THEN RInt(255) ELSE RInt(0)

\* C8: once processWaveNode has filled the pixels, every pixel's alpha is the
\* soft threshold of its mix = base + noise * amplitude: with softness > 0.001,
\* 0 up to threshold - softness, 255 from threshold + softness, and
\* 255 * (mix - (threshold - softness)) / (2 * softness) between; with
\* softness <= 0.001, 255 if mix > threshold and 0 otherwise; alpha is within
\* 0..255 and never decreases as mix grows.
C8_SoftThreshold ==
    Rendered =>
        /\ \A p \in WavePixels(resolution) :
              /\ alphaVal[p] = ExpectedAlpha(mix[p], wparams.threshold, wparams.soft)
              /\ RLe(RInt(0), alphaVal[p]) /\ RLe(alphaVal[p], RInt(255))
        /\ \A p, q \in WavePixels(resolution) :
              RLe(mix[p], mix[q]) => RLe(alphaVal[p], alphaVal[q])

\* a rendered image with softness > 0.001 that has a pixel below the ramp, one
\* above it and one on it
C8_Witness ==
    /\ Rendered
    /\ RLt(Rat(1, 1000), wparams.soft)
    /\ \E p, q, r \in WavePixels(resolution) :
          /\ RLt(mix[p], RSub(wparams.threshold, wparams.soft)) /\ alphaVal[p] = RInt(0)
          /\ RLt(RAdd(wparams.threshold, wparams.soft), mix[q]) /\ alphaVal[q] = RInt(255)
          /\ RLt(RInt(0), alphaVal[r]) /\ RLt(alphaVal[r], RInt(255))

\* C10: processWaveNode calls svgToDataUrl exactly when its input is not null
\* (once, on leaving its first step), and with a null input it never calls it
\* and every pixel's base value is the gradient 1 - y / resolution.
C10_RasterizesIffInput ==
    op = "wave" =>
        /\ rasterCalls = (IF input # NoInput /\ pc # "start" THEN 1 ELSE 0)
        /\ (input = NoInput /\ Rendered) =>
              \A p \in WavePixels(resolution) :
                  base[p] = RSub(RInt(1), Rat(p[2], resolution))

\* an image rendered from a null input without a call of the rasterizer
C10_Witness ==
    /\ Rendered
    /\ input = NoInput
    /\ rasterCalls = 0
    /\ base[<<0, 0>>] = RInt(1)
    /\ base[<<0, resolution - 1>>] = Rat(1, resolution)

(***************************************************************************)
(* Failures of the rasterizer                                               *)
(***************************************************************************)
RasterizerFailed == fault \in {"reject", "imgerror", "noctx", "nocanvas", "nomask"}

\* C2 as stated: after any failure of the rasterizer the operator's promise
\* resolves, with the empty fragment or with the input fragment.
C2_EmptyOrInputOnFailure ==
    /\ outcome # "rejected"
    /\ (pc = "done" /\ RasterizerFailed) =>
          /\ outcome = "resolved"
          /\ result \in {EmptyFragment, input}

\* the image of the wave over the default gradient
WaveOverDefaultGradient ==
    /\ Rendered
    /\ \A p \in WavePixels(resolution) :
          base[p] = RSub(RInt(1), Rat(p[2], resolution))
    /\ result = ImageFragment([kind |-> "canvas", pixels |-> data], resolution, "")

\* the sharp image of the input, no blur layer over it
SharpBase ==
    /\ layers = <<>>
    /\ result = ImageFragment([kind |-> "layers", layers |-> <<>>], resolution, "")

\* C2 (amended): after any failure of the rasterizer the operator's promise
\* never rejects and resolves with the empty fragment or the input fragment,
\* except that processWaveNode, when rasterizing its input failed, resolves
\* with the wave rendered over the default gradient, and processLayerBlurNode,
\* when only its mask canvas has no 2D context, with the sharp image.
C2_DegradesGracefully ==
    /\ outcome # "rejected"
    /\ (pc = "done" /\ RasterizerFailed) =>
          /\ outcome = "resolved"
          /\ IF op = "wave" /\ fault \in {"reject", "imgerror", "noctx"}
             THEN WaveOverDefaultGradient
             ELSE IF op = "blur" /\ fault = "nomask"
             THEN SharpBase
             ELSE result \in {EmptyFragment, input}

\* processWaveNode has resolved with an image although svgToDataUrl rejected
C2_Witness ==
    /\ op = "wave" /\ pc = "done" /\ fault = "reject"
    /\ outcome = "resolved"
    /\ WaveOverDefaultGradient
    /\ result \notin {EmptyFragment, input}

(***************************************************************************)
(* NodePreview: stale passes                                                *)
(***************************************************************************)
\* pass r calls setPreviewUrl in this step
Applies(r) ==
    /\ r <= Len(runs)
    /\ runs[r].gen # "applied"
    /\ runs'[r].gen = "applied"

Pixelated == op = "pixelate" /\ pc = "done" /\ fault = "none" /\ input # NoInput

\* C11: processPixelateNode rasterizes its input at width = height =
\* max(1, floor(resolution / max(1, pixelSize))) and embeds the bitmap at
\* resolution x resolution with image-rendering: pixelated; with pixelSize
\* 1, below 1 or left out the render size is the resolution, and the render
\* size is always within 1..resolution.
C11_PixelateRenderSize ==
    Pixelated =>
        LET href == result.xml.href
            ps == IF pixelSize = Undefined \/ RLt(pixelSize, RInt(1))
                  THEN RInt(1) ELSE pixelSize
            size == IF RLt(RInt(resolution), ps) THEN 1
                    ELSE CHOOSE n \in 1..resolution :
                             /\ RLe(RMul(RInt(n), ps), RInt(resolution))
                             /\ RLt(RInt(resolution), RMul(RInt(n + 1), ps))
        IN  /\ result.xml.tag = "image"
            /\ href.kind = "raster"
            /\ href.w = size /\ href.h = size
            /\ result.xml.size = resolution
            /\ result.xml.style = "image-rendering: pixelated"
            /\ result.defs = <<>>
            /\ (pixelSize = Undefined \/ RLe(pixelSize, RInt(1))) => href.w = resolution
            /\ href.w \in 1..resolution

\* a bitmap of one pixel: the pixels are larger than the image
C11_Witness ==
    /\ Pixelated
    /\ RLt(RInt(resolution), pixelSize)
    /\ result.xml.href.w = 1
    /\ result.xml.size = resolution

(***************************************************************************)
(* processLayerBlurNode: when and how the layers are composited             *)
(***************************************************************************)
\* the image was drawn and every canvas had its 2D context
Blurred == op = "blur" /\ pc = "done" /\ fault = "none" /\ input # NoInput

\* the square of the distance of the two control points, in pixels
DistSq ==
    LET dx == RMul(RSub(bparams.pointB[1], bparams.pointA[1]), RInt(resolution))
        dy == RMul(RSub(bparams.pointB[2], bparams.pointA[2]), RInt(resolution))
    IN  RAdd(RMul(dx, dx), RMul(dy, dy))

Radius == IF bparams.radius = Undefined THEN RInt(DefaultRadius) ELSE bparams.radius

Degenerate == RLt(DistSq, RInt(1)) \/ RLt(Radius, Rat(1, 2))

\* C12: with its canvases available, processLayerBlurNode composites no
\* blur layer (the result is the sharp base alone) whenever the control
\* points are less than 1 apart or the radius is below 0.5, and composites
\* blur layers in every other case.
C12_NoLayersWhenDegenerate ==
    Blurred =>
        /\ Degenerate => (layers = <<>> /\ drawn = <<0>> /\ SharpBase)
        /\ ~Degenerate => (Len(layers) > 0 /\ Len(drawn) > 1)

\* points half a pixel apart with a radius of 3: the sharp base alone
C12_Witness ==
    /\ Blurred
    /\ RLt(DistSq, RInt(1)) /\ RLe(Rat(1, 2), Radius)
    /\ layers = <<>>
    /\ result.xml.tag = "image"

\* C13: in the non-degenerate case the sharp base is drawn first and then
\* exactly 16 layers in the order 1..16; layer i fades in from (i-1)/16 to
\* i/16 of the segment and is blurred by (i/16) * radius, so the blur grows
\* strictly from layer to layer, the last layer's blur is the radius, and the
\* intervals of consecutive layers tile [0, 1].
C13_SixteenLayersInOrder ==
    (Blurred /\ ~Degenerate) =>
        /\ drawn = [j \in 1..17 |-> j - 1]
        /\ Len(layers) = 16
        /\ \A i \in 1..16 :
              /\ layers[i].tStart = Rat(i - 1, 16)
              /\ layers[i].tEnd = Rat(i, 16)
              /\ layers[i].currentBlur = RMul(Rat(i, 16), Radius)
        /\ \A i \in 1..15 :
              /\ RLt(layers[i].currentBlur, layers[i + 1].currentBlur)
              /\ layers[i].tEnd = layers[i + 1].tStart
        /\ layers[1].tStart = RInt(0)
        /\ layers[16].tEnd = RInt(1)
        /\ layers[16].currentBlur = Radius

\* the sixteen layers over the base, with the default radius
C13_Witness ==
    /\ Blurred
    /\ bparams.radius = Undefined
    /\ Len(layers) = 16
    /\ layers[16].currentBlur = RInt(20)
    /\ drawn[1] = 0 /\ drawn[17] = 16

(***************************************************************************)
(* The path library                                                         *)
(***************************************************************************)
ReturnedFrom(fn) == call.fn = fn /\ path.returned

\* the polyline through the points, closed or not
Polyline(points, closed) ==
    [i \in 1..Len(points) |->
        PathCmd(IF i = 1 THEN "M" ELSE "L", <<points[i].x, points[i].y>>)]
    \o (IF closed THEN <<CmdClose>> ELSE <<>>)

AllTensionsLow(tension) ==
    IF tension.kind = "number" THEN RLe(tension.value, Rat(1, 100))
    ELSE RLe(tension.inner, Rat(1, 100)) /\ RLe(tension.outer, Rat(1, 100))

\* C16: getSplinePath with at least 2 points and every tension <= 0.01, be
\* the tension one number or the pair {inner, outer}, returns the polyline
\* through the points in order, closed with Z iff closed.
C16_LowTensionIsPolyline ==
    (ReturnedFrom("getSplinePath") /\ Len(call.points) >= 2
        /\ AllTensionsLow(call.tension))
    => path.d = Polyline(call.points, call.closed)

\* point i of the array is the end point or a control point of some command
Contributes(points, i, cmds) ==
    \/ i = 1 /\ Len(cmds) > 0 /\ cmds[1] = PathCmd("M", <<points[1].x, points[1].y>>)
    \/ \E c \in 1..Len(cmds), j \in 1..Len(points) :
          /\ safePt(points[j])
          /\ \/ cmds[c] = BezierSegment(points[j], points[i])
             \/ cmds[c] = BezierSegment(points[i], points[j])

\* C17: getBezierPath skips malformed points at any index, index 0 included,
\* without giving up the path: every well-formed point of the array
\* contributes to the path returned.
C17_MalformedPointsSkipped ==
    ReturnedFrom("getBezierPath") =>
        \A i \in 1..Len(call.points) :
            safePt(call.points[i]) => Contributes(call.points, i, path.d)

\* the end point of a command (the last two values printed)
EndPoint(cmd) == <<cmd.args[Len(cmd.args) - 1], cmd.args[Len(cmd.args)]>>

\* the end points with immediate repetitions left out
RECURSIVE Visited(_, _)
Visited(cmds, n) ==
    IF n = 0 THEN <<>>
    ELSE LET before == Visited(cmds, n - 1)
         IN  IF cmds[n].c = "Z" THEN before
             ELSE IF Len(before) > 0 /\ before[Len(before)] = EndPoint(cmds[n])
             THEN before
             ELSE Append(before, EndPoint(cmds[n]))

\* command a is the one arc of radius r from point from to point to
IsCornerArc(cmds, a, r, from, to) ==
    /\ cmds[a] = PathCmd("A", <<r, r, RInt(0), RInt(0), RInt(1), to[1], to[2]>>)
    /\ EndPoint(cmds[a - 1]) = from

C20_StarVertices ==
    ReturnedFrom("getStarPath") =>
        LET n == 2 * call.points
            cmds == path.d
        IN  /\ Len(cmds) = n + 1
            /\ cmds[n + 1] = CmdClose
            /\ \A j \in 1..n :
                  LET i == j - 1
                      r == IF i % 2 = 0 THEN call.outerR ELSE call.innerR
                      turn == RSub(Rat(i, n), Rat(1, 4))
                  IN  /\ cmds[j].c = (IF i = 0 THEN "M" ELSE "L")
                      /\ cmds[j].args = <<Polar(call.c, r, "cos", turn),
                                          Polar(call.c, r, "sin", turn)>>
            /\ cmds[1].args[1].turn = Rat(-1, 4)

\* the star of 5 points with radii 100 and 50: 10 vertices
C20_Witness ==
    /\ ReturnedFrom("getStarPath")
    /\ call.points = 5 /\ call.outerR = RInt(100) /\ call.innerR = RInt(50)
    /\ Len(path.d) = 11
    /\ path.d[2].args[1].r = RInt(50)
    /\ path.d[3].args[1].r = RInt(100)

(***************************************************************************)
(* processShapeNode: malformed point arrays                                 *)
(***************************************************************************)
Shaped(types) ==
    call.fn = "processShapeNode" /\ frag # NoFragment /\ call.params.type \in types

\* the commands of the d attribute of the path element
EmittedPath(fr) == fr.xml[2].attrs[1].value.d

\* C18: processShapeNode for PATH and PEN returns for every params.points
\* (left out, no array, an array with null entries or entries whose x or y is
\* missing or no number), and every coordinate of the emitted path is a
\* number computed from a numeric x and a numeric y.
C18_MalformedPointsFiltered ==
    Shaped({"PATH", "PEN"}) =>
        \A c \in 1..Len(EmittedPath(frag)) :
            \A a \in 1..Len(EmittedPath(frag)[c].args) :
                Finite(EmittedPath(frag)[c].args[a])

(***************************************************************************)
(* processFilterNode: references and attributes                             *)
(***************************************************************************)
ShapeTypes == {"RECTANGLE", "CIRCLE", "POLYGON", "WAVY_RING", "BEAM", "PATH", "PEN"}
DefinitionOperators == {"GLOW", "NEON", "SOFT_BLUR", "GRADIENT_FADE"}

\* the chain started from a fragment of processShapeNode
FromShape == Len(chain) > 0 /\ chain[1].op \in ShapeTypes /\ frag # NoFragment

\* the operator applied last, and the number of operators applied
LastStep == chain[Len(chain)]
Applications == Len(chain) - 1

\* the attribute values of some elements
AttrValues(elements) ==
    UNION { {elements[i].attrs[a].value : a \in 1..Len(elements[i].attrs)} :
            i \in 1..Len(elements) }

DefValues(defs) == UNION {AttrValues(defs[e]) : e \in 1..Len(defs)}

\* the ids referenced by url(#id) in the markup or in a defs entry
Referenced(fr) ==
    {v.id : v \in {w \in AttrValues(fr.xml) \cup DefValues(fr.defs) : w.kind = "url"}}

\* the ids defined in the defs entries
Defined(defs) == {v.id : v \in {w \in DefValues(defs) : w.kind = "id"}}

\* C14: in every fragment reached from a fragment of processShapeNode by
\* FILL, STROKE, GLOW, NEON, SOFT_BLUR and GRADIENT_FADE, every id referenced
\* in the markup or in a defs entry is defined in a defs entry; GLOW, NEON,
\* SOFT_BLUR and GRADIENT_FADE return the input's defs followed by one new
\* entry, which defines the id their wrapping g references, whatever ids
\* generateId returns.
C14_ReferenceClosure ==
    FromShape =>
        /\ Referenced(frag) \subseteq Defined(frag.defs)
        /\ (Applications >= 1 /\ LastStep.op \in DefinitionOperators) =>
              LET n == Len(prevFrag.defs)
              IN  /\ Len(frag.defs) = n + 1
                  /\ SubSeq(frag.defs, 1, n) = prevFrag.defs
                  /\ Referenced(SVGResult(<<frag.xml[1]>>, <<>>))
                        \subseteq Defined(<<frag.defs[n + 1]>>)

\* a beam, made to glow, then faded: gradient, filter, mask and its gradient
C14_Witness ==
    /\ FromShape /\ chain[1].op = "BEAM"
    /\ Applications = 2 /\ chain[2].op = "GLOW" /\ LastStep.op = "GRADIENT_FADE"
    /\ Len(frag.defs) = 3
    /\ Cardinality(Referenced(frag)) = 4
    /\ Referenced(frag) = Defined(frag.defs)

\* the attributes of the names, and the others, in written order
Named(attrs, names) == SelectSeq(attrs, LAMBDA a : a.name \in names)
Others(attrs, names) == SelectSeq(attrs, LAMBDA a : a.name \notin names)
Written(attrs) == {attrs[e] : e \in 1..Len(attrs)}

\* the operator applied last has rewritten the requested attributes of the
\* drawable elements and nothing else
Rewritten(requested) ==
    LET names == {requested[e].name : e \in 1..Len(requested)}
    IN  /\ Len(frag.xml) = Len(prevFrag.xml)
        /\ frag.defs = prevFrag.defs
        /\ \A i \in 1..Len(frag.xml) :
              LET new == frag.xml[i]
                  old == prevFrag.xml[i]
              IN  /\ new.tag = old.tag /\ new.depth = old.depth
                  /\ IF new.tag \in DrawableTags
                     THEN /\ Len(Named(new.attrs, names)) = Len(requested)
                          /\ Written(Named(new.attrs, names)) = Written(requested)
                          /\ Others(new.attrs, names) = Others(old.attrs, names)
                     ELSE new.attrs = old.attrs

\* C15: FILL takes fill, stroke and stroke-width off the elements of the
\* drawable tags only and gives each of them exactly one of each with the
\* requested values, leaving the attributes of the other elements, the
\* other attributes and the defs as they were; STROKE does the same with
\* stroke, stroke-width and stroke-opacity and leaves every fill as it was.
C15_OnlyDrawablesRewritten ==
    (frag # NoFragment /\ Applications >= 1) =>
        /\ LastStep.op = "FILL" => Rewritten(FillAttrs(LastStep.params))
        /\ LastStep.op = "STROKE" => Rewritten(StrokeAttrs(LastStep.params))

(***************************************************************************)
(* processShapeNode: the group, the paint and the defs                      *)
(***************************************************************************)
\* the elements of a tag in some markup
Tagged(elements, tag) == {i \in 1..Len(elements) : elements[i].tag = tag}

\* C21: processShapeNode returns <g><path/></g>; the g of the rectangle is
\* translated by (resolution/2 - w/2, resolution/2 - h/2), w and h the width
\* and height of the rectangle drawn, the g of circle, polygon, wavy ring and
\* beam by (resolution/2, resolution/2), the g of PATH and PEN has no
\* transform; the fill is white except for BEAM, whose fill refers to the
\* one gradient of its one defs entry; the other kinds return no defs.
C21_CentredAndPainted ==
    Shaped(ShapeTypes) =>
        LET type == call.params.type
            half == Rat(call.resolution, 2)
            g == frag.xml[1]
            shape == frag.xml[2]
            cmds == EmittedPath(frag)
            fill == Named(shape.attrs, {"fill"})
        IN  /\ Len(frag.xml) = 2 /\ g.tag = "g" /\ shape.tag = "path"
            /\ type \in {"PATH", "PEN"} => g.attrs = <<>>
            /\ type = "RECTANGLE" =>
                  LET w == cmds[3].args[6]
                      h == cmds[5].args[7]
                  IN  g.attrs = <<Attr("transform",
                                       Translate(RSub(half, RDiv(w, RInt(2))),
                                                 RSub(half, RDiv(h, RInt(2)))))>>
            /\ type \in {"CIRCLE", "POLYGON", "WAVY_RING", "BEAM"} =>
                  g.attrs = <<Attr("transform", Translate(half, half))>>
            /\ Len(fill) = 1
            /\ type # "BEAM" => fill[1].value = Text("white") /\ frag.defs = <<>>
            /\ type = "BEAM" =>
                  /\ Len(frag.defs) = 1
                  /\ Cardinality(Tagged(frag.defs[1], "linearGradient")) = 1
                  /\ fill[1].value.kind = "url"
                  /\ Defined(frag.defs) = {fill[1].value.id}

\* a rectangle of 100 x 200 drawn at twice the preview resolution: 200 x 400,
\* moved by (412, 312)
C21_Witness ==
    /\ Shaped({"RECTANGLE"})
    /\ call.resolution = 2 * PreviewResolution
    /\ call.params.width = RInt(100) /\ call.params.height = RInt(200)
    /\ frag.xml[1].attrs[1].value = Translate(RInt(412), RInt(312))

(***************************************************************************)
(* getBezierPath and getSplinePath: the cubics                              *)
(***************************************************************************)
WellFormed(pt) == ~pt.null /\ IsNumber(pt.x) /\ IsNumber(pt.y)

\* the handle of a point if it is there with two numbers, else the point
HandleOr(pt, h) == IF ~h.null /\ IsNumber(h.x) /\ IsNumber(h.y) THEN h ELSE pt

\* the cubic from a to b: a's handleOut, b's handleIn, b
Cubic(a, b) ==
    PathCmd("C", <<HandleOr(a, a.handleOut).x, HandleOr(a, a.handleOut).y,
                   HandleOr(b, b.handleIn).x, HandleOr(b, b.handleIn).y, b.x, b.y>>)

\* C22: for well-formed points getBezierPath returns the moveto to the first
\* point, then for each next point the cubic from its predecessor (the
\* predecessor's handleOut, its own handleIn, the anchor where a handle is
\* missing or invalid); closed paths of 2 points or more end with the cubic
\* from the last point to the first and Z, a closed path of one point is
\* the moveto alone.
C22_BezierCubics ==
    (/\ ReturnedFrom("getBezierPath") /\ Len(call.points) >= 1
     /\ \A i \in 1..Len(call.points) : WellFormed(call.points[i]))
    => LET pts == call.points
           n == Len(pts)
       IN  path.d = <<PathCmd("M", <<pts[1].x, pts[1].y>>)>>
                    \o [i \in 1..(n - 1) |-> Cubic(pts[i], pts[i + 1])]
                    \o (IF call.closed /\ n >= 2
                        THEN <<Cubic(pts[n], pts[1]), CmdClose>> ELSE <<>>)

\* a closed path of three points, one of them with an invalid handleIn and
\* no handleOut
C22_Witness ==
    /\ ReturnedFrom("getBezierPath") /\ call.closed /\ Len(call.points) = 3
    /\ \A i \in 1..3 : WellFormed(call.points[i])
    /\ call.points[2].handleOut.null /\ ~call.points[1].handleOut.null
    /\ Len(path.d) = 5 /\ path.d[5] = CmdClose
    /\ path.d[3].args[1] = call.points[2].x

SomeTensionHigh(tension) ==
    IF tension.kind = "number" THEN RLt(Rat(1, 100), tension.value)
    ELSE RLt(Rat(1, 100), tension.inner) \/ RLt(Rat(1, 100), tension.outer)

\* the tension of a point: inner for type 'inner', else outer
TensionAt(tension, pt) ==
    IF tension.kind = "number" THEN tension.value
    ELSE IF pt.type = "inner" THEN tension.inner ELSE tension.outer

\* point i of n, counted from 0 and taken cyclically
Cyclic(pts, i) == pts[((i + Len(pts)) % Len(pts)) + 1]

\* C23: with 2 points or more and some tension above 0.01, getSplinePath
\* returns the moveto to point 0, then n cubics if closed (and Z), n - 1 if
\* open; the cubic from point i to point i+1 has the control points
\* p0 + (p1 - p_prev) * tension(p0) * 0.25 and p1 - (p2 - p0) * tension(p1) * 0.25,
\* the neighbours taken cyclically.
C23_SplineCubics ==
    (/\ ReturnedFrom("getSplinePath") /\ Len(call.points) >= 2
     /\ SomeTensionHigh(call.tension))
    => LET pts == call.points
           n == Len(pts)
           count == IF call.closed THEN n ELSE n - 1
           quarter == Rat(1, 4)
       IN  /\ Len(path.d) = 1 + count + (IF call.closed THEN 1 ELSE 0)
           /\ path.d[1] = PathCmd("M", <<pts[1].x, pts[1].y>>)
           /\ call.closed => path.d[Len(path.d)] = CmdClose
           /\ \A i \in 0..(count - 1) :
                 LET p0 == Cyclic(pts, i)
                     p1 == Cyclic(pts, i + 1)
                     pp == Cyclic(pts, i - 1)
                     p2 == Cyclic(pts, i + 2)
                     t0 == TensionAt(call.tension, p0)
                     t1 == TensionAt(call.tension, p1)
                 IN  path.d[i + 2] =
                        PathCmd("C",
                            <<RAdd(p0.x, RMul(RMul(RSub(p1.x, pp.x), t0), quarter)),
                              RAdd(p0.y, RMul(RMul(RSub(p1.y, pp.y), t0), quarter)),
                              RSub(p1.x, RMul(RMul(RSub(p2.x, p0.x), t1), quarter)),
                              RSub(p1.y, RMul(RMul(RSub(p2.y, p0.y), t1), quarter)),
                              p1.x, p1.y>>)

\* a closed spline through three distinct points, inner tension 1/2 and
\* outer tension 0: three cubics, the first leaving (0,0) without tangent
C23_Witness ==
    /\ ReturnedFrom("getSplinePath") /\ call.closed
    /\ call.tension = PairTension(Rat(1, 2), RInt(0))
    /\ call.points = << SplinePoint(RInt(0), RInt(0), "outer"),
                        SplinePoint(RInt(8), RInt(0), "inner"),
                        SplinePoint(RInt(8), RInt(8), "undefined") >>
    /\ Len(path.d) = 5
    /\ path.d[2] = PathCmd("C", <<RInt(0), RInt(0), RInt(7), RInt(-1), RInt(8), RInt(0)>>)

(***************************************************************************)
(* processWaveNode: the oscillators and the column signal                  *)
(***************************************************************************)
\* colNoise[x], read back from mix = base + colNoise[x] * amp
Signal(x) == RDiv(RSub(mix[<<x, 0>>], base[<<x, 0>>]), wparams.amp)

\* max(1, N * 0.6)
SignalDivisor(n) == IF 10 <= 6 * n THEN Rat(6 * n, 10) ELSE RInt(1)

\* N / max(1, N * 0.6)
SignalLimit(n) == RDiv(RInt(n), SignalDivisor(n))

REq(a, b) == RLe(a, b) /\ RLe(b, a)

\* C24: processWaveNode builds exactly N = generators oscillators; oscillator
\* i (from 0) takes draw 2i+1 of mulberry32(seed) for its phase and draw 2i+2
\* for its speed; every draw is a 32-bit numerator r/2^32 in [0, 1), so the
\* phase r*2*PI lies in [0, 2*PI) and the speed 0.5 + r*1.5 in [0.5, 2.0); the
\* signal of a column is the sum of the N oscillator values divided by
\* max(1, N*0.6), of magnitude at most N / max(1, N*0.6), and 0 when N = 0
C24_OscillatorsAndSignal ==
    (op = "wave" /\ pc # "start") =>
        LET n == wparams.generators
            draws == RandValues(wparams.seed, 2 * n)
        IN  /\ Len(seeds) = n
            /\ \A i \in 0..(n - 1) :
                  /\ seeds[i + 1].phase = draws[2 * i + 1]
                  /\ seeds[i + 1].speed = draws[2 * i + 2]
                  /\ IsUint32(seeds[i + 1].phase)
                  /\ IsUint32(seeds[i + 1].speed)
            /\ Rendered =>
                  \A x \in 0..(resolution - 1) :
                      /\ \E values \in [1..n -> {RInt(-1), RInt(0), Rat(1, 2), RInt(1)}] :
                            REq(Signal(x), RDiv(RSum(values, n), SignalDivisor(n)))
                      /\ RLe(RSub(RInt(0), SignalLimit(n)), Signal(x))
                      /\ RLe(Signal(x), SignalLimit(n))
                      /\ n = 0 => REq(Signal(x), RInt(0))
                      /\ \A q \in WavePixels(resolution) :
                            q[1] = x => REq(RSub(mix[q], base[q]),
                                            RMul(Signal(x), wparams.amp))

\* an image of two oscillators with distinct draws, one column at the limit
\* -2/1.2 and another strictly inside it
C24_Witness ==
    /\ Rendered
    /\ wparams.generators = 2
    /\ Len(seeds) = 2
    /\ seeds[1].phase # seeds[1].speed /\ seeds[1].speed # seeds[2].phase
    /\ \E x, z \in 0..(resolution - 1) :
          /\ REq(Signal(x), Rat(-5, 3))
          /\ RLt(Rat(-5, 3), Signal(z)) /\ RLt(Signal(z), Rat(5, 3))

(***************************************************************************)
(* processTraceNode: what the stitching pass keeps of the marched segments *)
(***************************************************************************)
\* the linetos of dd that draw the directed segment from key a to key b
Drawn(dd, a, b) ==
    {t \in 2..Len(dd) : /\ dd[t].c = "L" /\ dd[t].key = b
                        /\ dd[t - 1].c # "Z" /\ dd[t - 1].key = a}

\* C25: the stitching pass emits every recorded directed segment exactly once,
\* as the lineto that follows its start point, and no other lineto, whatever
\* the order of the walks; no two segments share a start key, there are at
\* most 2*(fidelity-1)^2 segments, and a walk never stops because its step
\* counter reached 2*fidelity^2
C25_EverySegmentOnce ==
    /\ (op = "trace" /\ pc = "walk") =>
          /\ steps < maxSteps
          /\ steps <= Len(segs)
    /\ (op = "trace" /\ fault = "none" /\ rasterCalls > 0
            /\ pc \in {"stitch", "walk", "pathData", "done"}) =>
          /\ Len(segs) <= 2 * (fidelity - 1) * (fidelity - 1)
          /\ \A i, j \in 1..Len(segs) : i # j => segs[i].startKey # segs[j].startKey
          /\ Len(nextMap) = Len(segs)
          /\ \A j \in 1..Len(segs) :
                Cardinality(Drawn(d, segs[j].startKey, segs[j].endKey)) <= 1
    /\ Stitched =>
          /\ \A j \in 1..Len(segs) :
                Cardinality(Drawn(d, segs[j].startKey, segs[j].endKey)) = 1
          /\ Cardinality({t \in 1..Len(d) : d[t].c = "L"}) = Len(segs)

\* a finished pass over at least six segments in which a later walk ran into
\* a key an earlier walk had emitted, and another walk closed
C25_Witness ==
    /\ Stitched /\ pc = "done"
    /\ Len(segs) >= 6
    /\ \E i \in SubStarts(d) :
          ~SubClosed(d, i) /\ KeyBefore(d, d[SubLastL(d, i)].key, SubLastL(d, i))
    /\ \E i \in SubStarts(d) : SubClosed(d, i)
    /\ result = TracePath(d)

(***************************************************************************)
(* processTraceNode: the border of the grid                                *)
(***************************************************************************)
\* the marching loop has run
Traced ==
    /\ op = "trace" /\ fault = "none" /\ rasterCalls > 0
    /\ pc \in {"stitch", "walk", "pathData", "done"}

\* the key lies on the outermost row or column of samples
OnBorder(key) ==
    LET lo == toFixed2(0, resolution, fidelity)
        hi == toFixed2(2 * (fidelity - 1), resolution, fidelity)
    IN  key[1] \in {lo, hi} \/ key[2] \in {lo, hi}

\* the subpath that starts at i passes through a border key
TouchesBorder(dd, i) ==
    \E t \in i..SubEnd(dd, i) : dd[t].c # "Z" /\ OnBorder(dd[t].key)

\* C26: processTraceNode marches the cells 0..fidelity-2 only, each segment
\* crossing edges between two samples of the grid that differ, so nothing is
\* recorded along the border of a field that is 'on' there; a field that is
\* 'on' everywhere records no segment and returns the empty fragment; a
\* subpath that reaches the border of the grid is left open (no Z)
C26_BorderLeftOpen ==
    /\ Traced =>
          /\ \A j \in 1..Len(segs) :
                /\ <<segs[j].x, segs[j].y>> \in Cells
                /\ CrossedEdgeMidpoint(segs[j].x, segs[j].y,
                                       segs[j].line[1], segs[j].line[2])
                /\ CrossedEdgeMidpoint(segs[j].x, segs[j].y,
                                       segs[j].line[3], segs[j].line[4])
          /\ \A c \in Cells :
                Cardinality(SegsOf(c[1], c[2])) = SegmentCount(Pattern(c[1], c[2]))
          /\ OnSet = Pixels(fidelity) => segs = <<>>
    /\ (Stitched /\ OnSet = Pixels(fidelity)) =>
          /\ d = <<>>
          /\ pc = "done" => result = EmptyFragment
    /\ Stitched =>
          \A i \in SubStarts(d) : TouchesBorder(d, i) => ~SubClosed(d, i)

\* a traced 'on' region along the top and left border whose outline starts
\* and ends on the border and is open
C26_Witness ==
    /\ Stitched /\ pc = "done"
    /\ {<<0, 0>>, <<1, 0>>, <<0, 1>>, <<1, 1>>} \subseteq OnSet
    /\ OnSet # Pixels(fidelity)
    /\ \E i \in SubStarts(d) :
          /\ OnBorder(d[i].key) /\ OnBorder(d[SubEnd(d, i)].key)
          /\ SubEnd(d, i) >= i + 2
          /\ ~SubClosed(d, i)
    /\ result = TracePath(d)

\* the field that is 'on' everywhere, traced to the empty fragment
C26_WitnessAllOn ==
    /\ Stitched /\ pc = "done"
    /\ OnSet = Pixels(fidelity)
    /\ segs = <<>>
    /\ result = EmptyFragment

(***************************************************************************)
(* FILL: what it paints                                                     *)
(***************************************************************************)
\* the values of the attributes of a name on an element
ValuesOf(element, name) ==
    {element.attrs[a].value : a \in {e \in 1..Len(element.attrs) :
                                        element.attrs[e].name = name}}

\* C27: FILL never leaves an element with both fill="none" and
\* stroke="none"; on every drawable element the stroke is white whenever
\* strokeWidth > 0 or the fill is disabled, and the stroke-width is
\* strokeWidth when that is > 0 and 1 otherwise, never 0 or negative
C27_FillPaintsSomething ==
    (frag # NoFragment /\ prevFrag # NoFragment /\ Applications >= 1
        /\ LastStep.op = "FILL") =>
        LET given == LastStep.params.strokeWidth
            thick == given # Undefined /\ Finite(given) /\ given[1] > 0
            enabled == LastStep.params.fillEnabled # "false"
        IN  \A i \in 1..Len(frag.xml) :
                LET el == frag.xml[i]
                IN  /\ ~(/\ Text("none") \in ValuesOf(el, "fill")
                         /\ Text("none") \in ValuesOf(el, "stroke"))
                    /\ el.tag \in DrawableTags =>
                          /\ ValuesOf(el, "fill")
                                = {Text(IF enabled THEN "white" ELSE "none")}
                          /\ (thick \/ ~enabled) => ValuesOf(el, "stroke") = {Text("white")}
                          /\ ValuesOf(el, "stroke-width")
                                = {Number(IF thick THEN given ELSE RInt(1))}
                          /\ \A w \in ValuesOf(el, "stroke-width") :
                                Finite(w.n) /\ w.n[1] > 0

\* a FILL with the fill disabled and a negative stroke width, on a path that
\* carried fill="white": fill none, stroke white, stroke-width 1
C27_Witness ==
    /\ frag # NoFragment /\ prevFrag # NoFragment /\ Applications >= 1
    /\ LastStep.op = "FILL"
    /\ LastStep.params.fillEnabled = "false"
    /\ LastStep.params.strokeWidth = RInt(-1)
    /\ \E i \in 1..Len(frag.xml) :
          /\ frag.xml[i].tag = "path"
          /\ Text("white") \in ValuesOf(prevFrag.xml[i], "fill")
          /\ ValuesOf(frag.xml[i], "fill") = {Text("none")}
          /\ ValuesOf(frag.xml[i], "stroke") = {Text("white")}
          /\ ValuesOf(frag.xml[i], "stroke-width") = {Number(RInt(1))}

(***************************************************************************)
(* processShapeNode: the default triangle of PATH                           *)
(***************************************************************************)
\* the points a path's commands end at
Anchors(cmds) ==
    {<<cmds[c].args[Len(cmds[c].args) - 1], cmds[c].args[Len(cmds[c].args)]>> :
        c \in {e \in 1..Len(cmds) : cmds[e].c # "Z"}}

\* (0.5, 0.2), (0.8, 0.8), (0.2, 0.8) times the resolution
TriangleVertices(res) ==
    { <<RMul(Rat(1, 2), res), RMul(Rat(1, 5), res)>>,
      <<RMul(Rat(4, 5), res), RMul(Rat(4, 5), res)>>,
      <<RMul(Rat(1, 5), res), RMul(Rat(4, 5), res)>> }

\* C28: processShapeNode for PATH draws the default triangle exactly when
\* params.points is missing, no array or the empty array; a non-empty array
\* is drawn through the points its filter keeps, and when fewer than 2 are
\* kept the path is d="" and not the triangle
C28_DefaultTriangle ==
    Shaped({"PATH"}) =>
        LET given == call.params.points
            items == IF given.kind = "array" THEN given.items ELSE <<>>
            kept == SelectSeq(items, LAMBDA p : ~p.null /\ IsNumber(p.x))
            res == RInt(call.resolution)
            cmds == EmittedPath(frag)
        IN  /\ (given.kind # "array" \/ Len(items) = 0) =>
                  /\ Len(cmds) \in {4, 5}
                  /\ cmds[1] = PathCmd("M", <<RMul(Rat(1, 2), res), RMul(Rat(1, 5), res)>>)
                  /\ cmds[Len(cmds)] = CmdClose
                  /\ Anchors(cmds) = TriangleVertices(res)
            /\ Len(items) > 0 =>
                  /\ Anchors(cmds) \subseteq
                        {<<NMul(kept[e].x, res), NMul(kept[e].y, res)>> : e \in 1..Len(kept)}
                  /\ Len(kept) < 2 => cmds = <<>>
                  /\ Len(kept) >= 2 => Len(cmds) \in {Len(kept) + 1, Len(kept) + 2}
                  /\ Anchors(cmds) # TriangleVertices(res)

\* a PATH whose array of two entries keeps a single point: an empty path
C28_Witness ==
    /\ Shaped({"PATH"})
    /\ call.params.points.kind = "array"
    /\ Len(call.params.points.items) = 2
    /\ Len(SelectSeq(call.params.points.items, PathKeeps)) = 1
    /\ EmittedPath(frag) = <<>>

\* a PATH without points: the triangle
C28_WitnessTriangle ==
    /\ Shaped({"PATH"})
    /\ call.params.points = NoPoints
    /\ Anchors(EmittedPath(frag)) = TriangleVertices(RInt(call.resolution))

(***************************************************************************)
(* Null inputs                                                              *)
(***************************************************************************)
\* processFilterNode has returned
Filtered == call.fn = "processFilterNode" /\ chain # <<>>

\* C29: processPixelateNode, processLayerBlurNode and processTraceNode, and
\* processFilterNode for every node type, return the empty fragment when
\* their input is null, without calling the rasterizer or minting an id;
\* processFilterNode with an input and a type it has no case for returns the
\* input unchanged
C29_NullInputEmpty ==
    /\ (op \in {"pixelate", "blur", "trace"} /\ input = NoInput) =>
          /\ rasterCalls = 0
          /\ minted = <<>>
          /\ pc \in {"start", "done"}
          /\ pc = "done" => result = EmptyFragment /\ outcome = "resolved"
    /\ Filtered =>
          /\ rasterCalls = 0
          /\ call.input = NoInput => frag = SVGResult(<<>>, <<>>) /\ minted = <<>>
          /\ (call.input # NoInput /\ call.params.type \notin FilterTypes) =>
                frag = call.input /\ minted = <<>>

\* GRADIENT_FADE called on null: the empty fragment, no id minted
C29_Witness ==
    /\ Filtered
    /\ call.input = NoInput
    /\ call.params.type = "GRADIENT_FADE"
    /\ frag = SVGResult(<<>>, <<>>)
    /\ minted = <<>>

\* the trace, the pixelation and the blur of null
C29_WitnessAsync ==
    /\ op \in {"pixelate", "blur", "trace"} /\ input = NoInput /\ pc = "done"
    /\ result = EmptyFragment /\ rasterCalls = 0

\* TRANSLATE called on a beam: the beam, its defs included
C29_WitnessUnhandled ==
    /\ Filtered
    /\ call.params.type = "TRANSLATE"
    /\ call.input # NoInput /\ Len(call.input.defs) = 1
    /\ frag = call.input

(***************************************************************************)
(* NodePreview: the debounce                                                *)
(***************************************************************************)
Armed(rs) == {r \in 1..Len(rs) : rs[r].timer = "armed"}

\* run r calls generateTexturePNG in this step
Starts(r) ==
    /\ r <= Len(runs)
    /\ runs[r].gen = "none"
    /\ runs'[r].gen = "pending"

\* nodes, edges, nodeId or visible change, or the component unmounts
Superseding == version' # version \/ visible' # visible \/ mounted' # mounted

====
